---- MODULE Spec2Model ----
(***************************************************************************)
(* Session-addressed request routing of spotify-remote-mcp (src/index.ts). *)
(*                                                                         *)
(* The Session Store is the map `transports`; the Request Router is the    *)
(* three express handlers mcpPostHandler, mcpGetHandler, mcpDeleteHandler; *)
(* the Channel is the StreamableHTTPServerTransport each initialize        *)
(* request constructs.  The handlers are async functions: every step below *)
(* is one run-to-completion segment of a handler between two awaits, so    *)
(* segments of different requests interleave exactly where the code        *)
(* awaits.  The Channel's own code is not part of the repository's files;  *)
(* its states and transitions follow the specification (section 4.3), and  *)
(* the callbacks the repository hands to it (onsessioninitialized,         *)
(* onclose, sessionIdGenerator) follow src/index.ts.                       *)
(***************************************************************************)
EXTENDS Integers, Sequences, FiniteSets, TLC

(* ---------------------------------------------------------------- bounds *)

\* Channels (initialize requests routed to the create branch) per run.
MaxChannels == 2

\* Where the counters of store insertions and removals saturate.
MaxCount == 2

\* Outbound events a channel logs per run.
MaxEvents == 3

\* Entries registered per run of the registry specification.
MaxTools == 3

\* Phrases in the message of an error the music service raises.
MaxPhrases == 2

\* Devices the music service lists for the account.
MaxDevices == 2

\* URIs in one play_songs call.
MaxUris == 3

(* ------------------------------------------------------------- constants *)

\* req.headers['mcp-session-id'] is undefined: no session header.
NoSession == 0

\* transports[sessionId] is undefined: no channel stored under the key.
NoChannel == 0

Channels == 1..MaxChannels

\* Session ids a request may carry: every id the generator can produce in a
\* run, and one ("not-real") that it never produces.
NotReal == MaxChannels + 1
SessionIds == 1..NotReal

\* A header value that names a member of Object.prototype ("constructor",
\* "toString", "__proto__"): transports is a plain object literal, so reading
\* transports[sessionId] with it finds the inherited member, which is truthy
\* and is no transport.
InheritedKey == MaxChannels + 2

\* What transports[InheritedKey] evaluates to: the inherited member.
Inherited == -1

Bodies == {"initialize", "call"}

Min(a, b) == IF a < b THEN a ELSE b

(* ------------------------------------------------------------ the state *)

VARIABLES
    transports,   \* the Session Store: session id -> channel (NoChannel: absent)
    nchan,        \* channels constructed so far
    uuids,        \* session ids generated so far
    chState,      \* channel -> "none" | "connecting" | "active" | "closing"
                  \*            | "closed" | "failed"
    chSid,        \* channel -> transport.sessionId (NoSession: undefined)
    initPending,  \* channel -> its initialize response is not yet written
    delPending,   \* channel -> a termination request is dispatched, not finished
    closedAgain,  \* channel -> a close signal reached it when it was closed
    insertCount,  \* channel -> times the store came to hold it under a key
    removeCount,  \* session id -> times its key left the store
    learned,      \* session id -> a client has seen it in an initialize response
    terminated,   \* session id -> a DELETE for it was answered with success
    ev,           \* the last handler event (request routed / response written)
    tools,        \* toolsRegistry.tools: the entries registered, in order
    tools2,       \* toolsRegistry2.tools: the entries registered, in order
    toolCalls,    \* the server.tool calls the last registerToServer made
    handles,      \* what the last registerToServer returned
    serverTools,  \* channel -> the tools registered on its McpServer
    connected,    \* channel -> server.connect(transport) has returned
    onclose,      \* channel -> transport.onclose is attached
    eventStore,   \* channel -> the event store it was constructed with
    events,       \* event store -> the events stored, in append order
    run,          \* the tool handler call in progress: its client calls, result
    shutdown      \* the SIGINT handler: where it is, the keys it still visits

\* The registries and the server of the registry's own operations, and what
\* runs beside the request handlers: a tool handler, the SIGINT handler.
registryVars == <<tools, tools2, toolCalls, handles, run, shutdown>>

\* What the create branch builds around a channel.
serverVars == <<serverTools, connected, onclose, eventStore>>

vars == <<transports, nchan, uuids, chState, chSid, initPending, delPending,
          closedAgain, insertCount, removeCount, learned, terminated, ev,
          registryVars, serverVars, events>>

(* ------------------------------------------- responses the router writes *)

\* A handler event: the request (verb, sid header, body), the router's branch
\* (route), the channel whose handleRequest was invoked for it (fwd), and what
\* the client has of the response: status 0 means nothing written (yet),
\* jsonrpc/code/msg the error envelope, respSid the mcp-session-id response
\* header, escaped that the exception left the handler uncaught, replayed
\* the stored events the Channel replays on the stream it opens.
Event(verb, sid, body, route, fwd, r) ==
    [verb |-> verb, sid |-> sid, body |-> body, route |-> route, fwd |-> fwd,
     status |-> r.status, jsonrpc |-> r.jsonrpc, code |-> r.code,
     msg |-> r.msg, respSid |-> r.respSid, escaped |-> r.escaped,
     replayed |-> r.replayed]

Response(status, jsonrpc, code, msg) ==
    [status |-> status, jsonrpc |-> jsonrpc, code |-> code, msg |-> msg,
     respSid |-> NoSession, escaped |-> FALSE, replayed |-> <<>>]

\* Nothing written (yet): the handler is awaiting.
NoResponse == Response(0, "", 0, "")

\* res.status(400).json({jsonrpc: '2.0', error: {code: -32000, message}, id: null})
BadRequest ==
    Response(400, "2.0", -32000, "Bad Request: No valid session ID provided")

\* res.status(500).json({jsonrpc: '2.0', error: {code: -32603, message}, id: null})
InternalError == Response(500, "2.0", -32603, "Internal server error")

\* res.status(400).send('Invalid or missing session ID') of the GET handler
GetInvalidSession == Response(400, "", 0, "Invalid or missing session ID")

\* res.status(400).send('Invalid or missing session ID') of the DELETE handler
DeleteInvalidSession == Response(400, "", 0, "Invalid or missing session ID")

\* res.status(500).send('Error processing session termination')
TerminationError == Response(500, "", 0, "Error processing session termination")

\* The response is lost to an exception no handler caught.
Escaped(r) == [r EXCEPT !.escaped = TRUE]

(* ------------------------------------------------------ router decisions *)

\* isInitializeRequest(req.body)
IsInitializeRequest(body) == body = "initialize"

\* The property read transports[sessionId]: the own entry, else the member
\* inherited from Object.prototype, else undefined.
Lookup(tr, sid) ==
    IF sid \in SessionIds THEN tr[sid]
    ELSE IF sid = InheritedKey THEN Inherited
    ELSE NoChannel

\* A mutant of Route: the initialize test comes first, whatever the header.
RouteInitializeFirst(tr, sid, body) ==
    IF IsInitializeRequest(body) THEN "create"
    ELSE IF sid # NoSession /\ Lookup(tr, sid) # NoChannel THEN "reuse"
    ELSE "reject"

\* A mutant of Route: an initialize body creates a session whenever the
\* header names no stored session, also when the request carries a header.
RouteCreateAnyHeader(tr, sid, body) ==
    IF sid # NoSession /\ Lookup(tr, sid) # NoChannel THEN "reuse"
    ELSE IF IsInitializeRequest(body) THEN "create"
    ELSE "reject"

\* The if / else if / else of mcpPostHandler.
Route(tr, sid, body) ==
    IF sid # NoSession /\ Lookup(tr, sid) # NoChannel THEN "reuse"
    ELSE IF sid = NoSession /\ IsInitializeRequest(body) THEN "create"
    ELSE "reject"

\* The else branch of mcpPostHandler: the one response it writes, whatever
\* the header and the body that brought the request there.
PostRejectResponse(sid, body) == BadRequest

\* if (!sessionId || !transports[sessionId]) of the GET and DELETE handlers.
KnownSession(tr, sid) == sid # NoSession /\ Lookup(tr, sid) # NoChannel

\* The text of the exception the catch block is handed (error.message).
ThrownText == "exception detail"

\* A mutant of PostCatch: the 500 carries the exception's own message.
PostCatchLeaks(headersSent, written) ==
    IF headersSent THEN written
    ELSE Response(500, "2.0", -32603, ThrownText)

\* A mutant of PostCatch: the catch block logs and writes nothing.
PostCatchSilent(headersSent, written) == written

\* catch (error) of mcpPostHandler: 500 unless headers were already sent.
PostCatch(headersSent, written) ==
    IF headersSent THEN written ELSE InternalError

\* catch (error) of mcpDeleteHandler: 500 unless headers were already sent.
DeleteCatch(headersSent, written) ==
    IF headersSent THEN written ELSE TerminationError

(* ------------------------------------ callbacks handed to the transport *)

\* A mutant of SessionIdGenerator: every channel gets the same id.
SessionIdGeneratorConstant(n) == 1

\* sessionIdGenerator: () => randomUUID(): an id no earlier call returned.
SessionIdGenerator(n) == n + 1

\* A mutant of OnSessionInitialized: the callback stores under a stale key
\* instead of the id it is handed.
OnSessionInitializedStaleKey(tr, sid, c) == [tr EXCEPT ![1] = c]

\* A mutant of OnSessionInitialized: the transport is not stored.
OnSessionInitializedNoStore(tr, sid, c) == tr

\* A mutant of OnSessionInitialized: the transport is stored under a second
\* key as well.
OnSessionInitializedTwoKeys(tr, sid, c) ==
    [tr EXCEPT ![sid] = c, ![NotReal] = c]

\* onsessioninitialized: transports[sessionId] = transport
OnSessionInitialized(tr, sid, c) == [tr EXCEPT ![sid] = c]

\* A mutant of OnClose: the callback logs and deletes nothing.
OnCloseKeeps(tr, sid) == tr

\* A mutant of OnClose: the callback empties the whole map.
OnCloseClearsAll(tr, sid) == [s \in SessionIds |-> NoChannel]

\* A mutant of OnClose: the callback deletes every key but the channel's own.
OnCloseDeletesOthers(tr, sid) ==
    [s \in SessionIds |-> IF s = sid THEN tr[s] ELSE NoChannel]

\* transport.onclose: if (sid && transports[sid]) delete transports[sid]
OnClose(tr, sid) ==
    IF sid # NoSession /\ tr[sid] # NoChannel
    THEN [tr EXCEPT ![sid] = NoChannel]
    ELSE tr

(* ---------------------------------------------------------- the Channel *)

\* A mutant of ChannelAccepts: a closing channel still takes requests.
ChannelAcceptsWhileClosing(st, body) ==
    st \in {"active", "closing"} /\ ~IsInitializeRequest(body)

\* Whether a channel in state st takes a request with this body: only an
\* active channel does, and it is initialized once.
ChannelAccepts(st, body) == st = "active" /\ ~IsInitializeRequest(body)

\* The response the Channel itself writes for a request it takes.
ChannelOk == Response(200, "", 0, "")

\* The structured error the Channel itself writes for a request it rejects
\* (closing or closed, or a second initialize).
ChannelError == Response(400, "2.0", 0, "rejected by the channel")

\* The initialize response: it carries the session id in the reserved header.
ChannelInitialized(sid) == [ChannelOk EXCEPT !.respSid = sid]

\* What the Channel does with a forwarded POST or GET.
ChannelHandle(st, body) ==
    IF ChannelAccepts(st, body) THEN ChannelOk ELSE ChannelError

(* ---------------------------------------------------- the Tool Registry *)

\* An entry of the registry: interface ITool.
ITool(name, description, argsSchema, execute) ==
    [name |-> name, description |-> description, argsSchema |-> argsSchema,
     execute |-> execute]

\* The tool modules that register with toolsRegistry when they are loaded.
LoadedTools ==
    << ITool("whoami", "profile", "{}", "WhoAmITool.execute"),
       ITool("set_volume", "volume", "{volume_percent, device_id}",
             "SetVolumeTool.execute"),
       ITool("pause_playback", "pause", "{device_id}",
             "PausePlaybackTool.execute"),
       ITool("get_playback_state", "state", "{market, additional_types}",
             "GetPlaybackStateTool.execute") >>

\* The tool modules that register with toolsRegistry2 when they are loaded.
LoadedTools2 ==
    << ITool("search", "search", "{q, type, limit, offset}",
             "SearchTool.execute"),
       ITool("list_devices", "devices", "{}", "ListDevicesTool.execute") >>

\* The entries the registry's own operations are tried with: two names, and
\* under each name two entries that differ in their handler.
ToolEntries ==
    { ITool(n, "text", "{}", e) : n \in {"tool1", "tool2"}, e \in {"f", "g"} }

\* A mutant of Register: an entry whose name is registered is turned away.
RegisterUnique(ts, tool) ==
    IF \E i \in 1..Len(ts) : ts[i].name = tool.name THEN ts
    ELSE Append(ts, tool)

\* register(tool): this.tools.push(tool)
Register(ts, tool) == Append(ts, tool)

\* server.tool(name, description, argsSchema, execute): the call as the
\* server receives it.
ToolCall(tool) ==
    <<tool.name, tool.description, tool.argsSchema, tool.execute>>

\* The handle server.tool returns for a call: the registered tool.
ServerTool(call) == [registered |-> call]

\* registerToServer(server): this.tools.map(tool => server.tool(tool.name,
\* tool.description, tool.argsSchema, tool.execute)): the calls it makes on
\* the server, in order.
RegisterToServer(ts) == [i \in 1..Len(ts) |-> ToolCall(ts[i])]

\* What registerToServer returns: the handle of each call, in order.
RegisteredTools(calls) == [i \in 1..Len(calls) |-> ServerTool(calls[i])]

\* A mutant of GetServer: the server is returned with no tool registered.
GetServerBare(ts) == <<>>

\* getServer(): new McpServer(...), toolsRegistry.registerToServer(server),
\* return server: the tools registered on the new server.
GetServer(ts) == RegisterToServer(ts)

\* The names of the tools in a sequence of server.tool calls.
ToolNames(calls) == {calls[i][1] : i \in 1..Len(calls)}

(* ------------------------------------------------ the bearer credential *)

\* The Authorization header of a request: absent, a token the account
\* service turns down, or a token it accepts.
Credentials == {"missing", "invalid", "valid"}

\* A mutant of VerifyAccessToken: the answer of the account service is not
\* looked at, every token is returned as verified.
VerifyAccessTokenUnchecked(token) == TRUE

\* tokenVerifier.verifyAccessToken(token): GET /v1/me with the token; it
\* throws when the response is not ok (FALSE) and returns the auth info
\* otherwise (TRUE).
VerifyAccessToken(token) == token = "valid"

\* authMiddleware = requireBearerAuth({verifier: tokenVerifier, ...}): next()
\* is called only for a request that carries a token the verifier returns
\* from; the scopes the verifier returns are the required ones.
RequireBearerAuth(cred) == cred # "missing" /\ VerifyAccessToken(cred)

\* The response of the middleware to a request it does not let through.
Unauthorized == Response(401, "", 0, "unauthenticated")

(* ------------------------------------------------------ the event store *)

NoStore == 0

\* A mutant of NewEventStore: one store is shared by every channel.
NewEventStoreShared(c) == 1

\* const eventStore = new InMemoryEventStore(): a store of the channel's own.
NewEventStore(c) == c

\* The events channel c has stored so far (it numbers them 1, 2, ...).
Logged(store, c) == Cardinality({i \in 1..Len(store) : store[i][1] = c})

\* The position of an event in the store, 0 when the store has no such event.
Position(store, e) ==
    IF \E i \in 1..Len(store) : store[i] = e
    THEN CHOOSE i \in 1..Len(store) : store[i] = e
    ELSE 0

\* replayEventsAfter(lastEventId): the events stored strictly after the
\* marker, in append order; none when the store does not know the marker.
ReplayEventsAfter(store, e) ==
    IF Position(store, e) = 0 THEN <<>>
    ELSE SubSeq(store, Position(store, e) + 1, Len(store))

\* The last-event-id a GET can carry: none (0), the number of an event a
\* client has been sent, or a number no channel has stored an event under.
Markers ==
    LET seen == {Len(events[st]) : st \in Channels}
    IN  0..((CHOOSE n \in seen : \A k \in seen : k <= n) + 1)

\* The single error result the Channel writes for a tool call whose handler
\* threw: the Channel catches the exception per request.
ChannelToolError == Response(200, "2.0", 0, "tool call failed")

\* A mutant of AfterHandlerError: a handler's exception tears the channel down.
AfterHandlerErrorCloses(st) == "closed"

\* The state of a Channel after a handler threw in one of its requests: as
\* before, the channel stays usable.
AfterHandlerError(st) == st

\* What the Channel writes on the stream a GET opens: the events replayed
\* for the last-event-id marker it carries (0: no marker).
ChannelStream(st, store, c, marker) ==
    IF ChannelAccepts(st, "none")
    THEN [ChannelOk EXCEPT
            !.replayed = IF marker = 0 THEN <<>>
                         ELSE ReplayEventsAfter(store, <<c, marker>>)]
    ELSE ChannelError

(* -------------------------------------------------------------- history *)

InsertsAfter(tr, tr2) ==
    [c \in Channels |->
        IF \E s \in SessionIds : tr2[s] = c /\ tr[s] # c
        THEN Min(insertCount[c] + 1, MaxCount) ELSE insertCount[c]]

RemovesAfter(tr, tr2) ==
    [s \in SessionIds |->
        IF tr[s] # NoChannel /\ tr2[s] = NoChannel
        THEN Min(removeCount[s] + 1, MaxCount) ELSE removeCount[s]]

NoEvent == Event("none", NoSession, "none", "none", NoChannel, NoResponse)

\* The event loop runs one handler segment to completion per turn; ev holds
\* what the segment of the current turn did, and is empty between turns.
TurnOver == ev = NoEvent

(* ------------------------------------------------------------ the tools *)

\* A missing value: an argument left out, a property that is not there.
Undefined == "undefined"

\* The authInfo a tool handler is called with: undefined, null, or the
\* AuthInfo the middleware attached to the request.
AuthInfos == {Undefined, "null", "authInfo"}

\* !authInfo
IsNotAuthenticatedNullPasses(authInfo) == authInfo = Undefined

IsNotAuthenticated(authInfo) == authInfo \in {Undefined, "null"}

\* String.prototype.includes: the text holds the searched pieces in a row.
Includes(text, search) ==
    \E i \in 0..(Len(text) - Len(search)) :
        SubSeq(text, i + 1, i + Len(search)) = search

\* A thrown value: an Error with its message, or a value that is no Error.
Error(message) == [isError |-> TRUE, message |-> message]

NotAnError == [isError |-> FALSE, message |-> <<>>]

\* error instanceof Error ? error.message : 'Unknown error'
ErrorMessage(error) ==
    IF error.isError THEN error.message ELSE <<"Unknown error">>

\* What the messages of the music service's errors are made of.
Errors ==
    LET Phrases == {"scope", "Premium", "Device not found", "No active device",
                    "Volume not supported", "Invalid volume", "API Error"}
        Messages == UNION {[1..n -> Phrases] : n \in 0..MaxPhrases}
    IN  {Error(m) : m \in Messages} \cup {NotAnError}

\* The one error of a call whose catch block does not read it.
ApiError == Error(<<"API Error">>)

\* A CallToolResult with one text item, and a promise that rejected.
TextResult(text) ==
    [threw |-> FALSE, content |-> <<[type |-> "text", text |-> text]>>,
     error |-> NotAnError]

Threw(error) == [threw |-> TRUE, content |-> <<>>, error |-> error]

NotAuthenticated == TextResult(<<"You are not authenticated.">>)

\* A call of the music-service client, in the order the handler made it.
Call(fn, device, context, uris) ==
    [fn |-> fn, device |-> device, context |-> context, uris |-> uris]

ApiCall(fn) == Call(fn, Undefined, <<>>, <<>>)

\* getSpotifyApi(authInfo): constructs the client, calls nothing.
GetSpotifyApi == ApiCall("getSpotifyApi")

\* What a handler did: the client calls it made and what it returned.
ToolRun(handler, tool, args, authInfo, api, calls, result) ==
    [handler |-> handler, tool |-> tool, args |-> args,
     authInfo |-> authInfo, api |-> api, calls |-> calls, result |-> result]


\* The arguments of a call, each left out unless given.
Args(uris, device_name, device_id, volume_percent) ==
    [uris |-> uris, device_name |-> device_name, device_id |-> device_id,
     volume_percent |-> volume_percent]

\* What an awaited client call came to.
Resolved(value) == [ok |-> TRUE, value |-> value, error |-> NotAnError]

Rejected(value, error) == [ok |-> FALSE, value |-> value, error |-> error]

\* What the client's calls come to during one handler call: reading the
\* playback state, listing the devices, and the handler's one other call
\* (the profile, the search, or the playback command).
Api(state, devices, command) ==
    [getPlaybackState |-> state, getAvailableDevices |-> devices,
     command |-> command]

\* Devices of the account.  A device can lack an id (the API types it as
\* string | null).
Devices ==
    [id : {Undefined, "device1", "device2"}, name : {"Kitchen", "Office"},
     type : {"Computer"}, is_active : BOOLEAN]

\* undefined where a device is looked for.
NoDevice ==
    [id |-> Undefined, name |-> Undefined, type |-> Undefined,
     is_active |-> FALSE]

\* getPlaybackState resolves with null, with a state that has no device, or
\* with a state whose device may have an id.
NullState == [present |-> FALSE, device |-> NoDevice]

\* playbackState?.device?.id
StateDeviceId(state) == IF state.present THEN state.device.id ELSE Undefined

\* The least member of a nonempty set of positions.
First(S) == CHOOSE i \in S : \A j \in S : i <= j

\* Array.prototype.find, given the positions of the elements that pass the
\* test: the first of them, or undefined.
Find(devices, passing) ==
    IF passing # {} THEN devices[First(passing)] ELSE NoDevice

\* String.prototype.toLowerCase on the names in use.
ToLowerCaseAsIs(s) == s

ToLowerCase(s) ==
    CASE s \in {"Kitchen", "KITCHEN", "kitchen"} -> "kitchen"
      [] s \in {"Office", "OFFICE", "office"} -> "office"
      [] s \in {"Den", "DEN", "den"} -> "den"
      [] OTHER -> s

\* `${d.name} (${d.type})`
DeviceLabel(d) == <<d.name, " (", d.type, ")">>

\* devices.map(d => `- ${d.name} (${d.type})`).join('\n')
RECURSIVE DeviceLines(_)
DeviceLines(devices) ==
    IF devices = <<>> THEN <<>>
    ELSE <<"- ">> \o DeviceLabel(Head(devices))
         \o (IF Len(devices) > 1
             THEN <<"\n">> \o DeviceLines(Tail(devices))
             ELSE <<>>)

\* No handler is running.
NoRun ==
    ToolRun("none", "none", Args(<<>>, Undefined, Undefined, 0), Undefined,
            Api(Resolved(NullState), Resolved(<<>>), Resolved(Undefined)),
            <<>>, TextResult(<<>>))

\* What the outcomes of the client's calls are drawn from.
DevicesOutcomes ==
    {Resolved(ds) : ds \in UNION {[1..n -> Devices] : n \in 0..MaxDevices}}
        \cup {Rejected(<<>>, ApiError)}

CommandOutcomes == {Resolved(Undefined)} \cup {Rejected(Undefined, e) : e \in Errors}

\* if (error instanceof Error) { if (error.message.includes(...)) return ... }
\* in the order of the if statements: the text of the first case whose
\* substring the message includes, else the fallback text.
Classify(cases, error, fallback) ==
    IF error.isError
       /\ \E i \in 1..Len(cases) : Includes(error.message, <<cases[i].search>>)
    THEN TextResult(<<cases[CHOOSE i \in 1..Len(cases) :
                         /\ Includes(error.message, <<cases[i].search>>)
                         /\ \A j \in 1..(i - 1) :
                               ~Includes(error.message, <<cases[j].search>>)].text>>)
    ELSE TextResult(<<fallback>> \o ErrorMessage(error))

(* whoami *)

\* WhoAmITool.execute: no try around the profile call.
WhoAmIExecute(authInfo, api) ==
    LET done(calls, result) ==
            ToolRun("WhoAmITool.execute", "whoami",
                    Args(<<>>, Undefined, Undefined, 0), authInfo, api, calls, result)
        calls == <<GetSpotifyApi, ApiCall("currentUser.profile")>>
    IN  IF IsNotAuthenticated(authInfo) THEN done(<<>>, NotAuthenticated)
        ELSE IF api.command.ok
        THEN done(calls, TextResult(<<"Here is the result of the Spotify Profile: ",
                                      "profile", ".">>))
        ELSE done(calls, Threw(api.command.error))

(* search *)

\* SearchTool.execute: no try around the search call.
SearchExecute(authInfo, api) ==
    LET done(calls, result) ==
            ToolRun("SearchTool.execute", "search",
                    Args(<<>>, Undefined, Undefined, 0), authInfo, api, calls, result)
        calls == <<GetSpotifyApi, ApiCall("search")>>
    IN  IF IsNotAuthenticated(authInfo) THEN done(<<>>, NotAuthenticated)
        ELSE IF api.command.ok
        THEN done(calls, TextResult(<<"Here is the result of the Spotify Search: ",
                                      "result", ".">>))
        ELSE done(calls, Threw(api.command.error))

(* list_devices *)

\* devices.map(device => `- ${device.name} (${device.type}) ${status}`).join('\n')
RECURSIVE DeviceStatusLines(_)
DeviceStatusLines(devices) ==
    IF devices = <<>> THEN <<>>
    ELSE <<"- ">> \o DeviceLabel(Head(devices))
         \o <<IF Head(devices).is_active THEN " (active)" ELSE " (inactive)">>
         \o (IF Len(devices) > 1
             THEN <<"\n">> \o DeviceStatusLines(Tail(devices))
             ELSE <<>>)

\* ListDevicesTool.execute
ListDevicesExecute(authInfo, api) ==
    LET done(calls, result) ==
            ToolRun("ListDevicesTool.execute", "list_devices",
                    Args(<<>>, Undefined, Undefined, 0), authInfo, api, calls, result)
        devices == api.getAvailableDevices
        calls == <<GetSpotifyApi, ApiCall("getAvailableDevices")>>
    IN  IF IsNotAuthenticated(authInfo) THEN done(<<>>, NotAuthenticated)
        ELSE IF ~devices.ok
        THEN done(calls, TextResult(<<"Error getting devices: ">>
                                    \o ErrorMessage(devices.error)))
        ELSE IF devices.value = <<>>
        THEN done(calls, TextResult(<<"No Spotify devices found. Please open Spotify on a device and try again.">>))
        ELSE done(calls, TextResult(<<"Available Spotify devices:\n">>
                                    \o DeviceStatusLines(devices.value)))

(* get_playback_state *)

\* GetPlaybackStateTool.execute
GetPlaybackStateExecute(authInfo, api) ==
    LET done(calls, result) ==
            ToolRun("GetPlaybackStateTool.execute", "get_playback_state",
                    Args(<<>>, Undefined, Undefined, 0), authInfo, api, calls, result)
        state == api.getPlaybackState
        calls == <<GetSpotifyApi, ApiCall("getPlaybackState")>>
    IN  IF IsNotAuthenticated(authInfo) THEN done(<<>>, NotAuthenticated)
        ELSE IF ~state.ok
        THEN done(calls, TextResult(<<"Error retrieving playback state: ">>
                                    \o ErrorMessage(state.error)))
        ELSE IF ~state.value.present
        THEN done(calls, TextResult(<<"No playback is currently active or the user is not playing anything.">>))
        ELSE done(calls, TextResult(<<"Current playback state: ",
                                      state.value.device.id,
                                      state.value.device.name>>))

(* set_volume *)

\* The catch block of SetVolumeTool.execute: the text each if statement
\* returns, by the substring it looks for.
SetVolumeText(search) ==
    CASE search = "scope" ->
           "Error: Insufficient permissions to control playback. The Spotify token needs the \"user-modify-playback-state\" scope to set volume."
      [] search = "Premium" ->
           "Error: This feature requires Spotify Premium. Volume control is only available for Premium users."
      [] search = "Device not found" ->
           "Error: The specified device was not found or is not available."
      [] search = "No active device" ->
           "Error: No active device found. Please start playing music on a Spotify device first."
      [] search = "Volume not supported" ->
           "Error: Volume control is not supported on this device."
      [] search = "Invalid volume" ->
           "Error: Invalid volume value. Volume must be between 0 and 100."

\* ... and the order of the if statements.
SetVolumeOrderPremiumFirst ==
    <<"Premium", "scope", "Device not found", "No active device",
      "Volume not supported", "Invalid volume">>

SetVolumeOrder ==
    <<"scope", "Premium", "Device not found", "No active device",
      "Volume not supported", "Invalid volume">>

SetVolumeCatch(error) ==
    Classify([i \in 1..Len(SetVolumeOrder) |->
                 [search |-> SetVolumeOrder[i],
                  text |-> SetVolumeText(SetVolumeOrder[i])]],
             error, "Error setting volume: ")

\* What the device lookup of set_volume and pause_playback leaves in
\* deviceId: the argument if given, else the playback state's device, else
\* (the state could not be read) undefined.
TargetDeviceId(args, state) ==
    IF args.device_id # Undefined THEN args.device_id
    ELSE IF state.ok THEN StateDeviceId(state.value)
    ELSE Undefined

\* ... and in deviceInfo.
TargetDeviceInfo(args, state, devices) ==
    LET target ==
            Find(devices.value,
                 {i \in 1..Len(devices.value) :
                     devices.value[i].id = args.device_id})
    IN  IF args.device_id # Undefined
        THEN IF devices.ok /\ target # NoDevice
             THEN <<" on ">> \o DeviceLabel(target)
             ELSE <<" on device ", args.device_id>>
        ELSE IF state.ok
             THEN <<" on ">> \o DeviceLabel(state.value.device)
             ELSE <<>>

\* The one client call of the lookup.
TargetLookup(args) ==
    IF args.device_id # Undefined
    THEN ApiCall("getAvailableDevices")
    ELSE ApiCall("getPlaybackState")

\* The state was read and names no device: the handler returns early.
NoActivePlayback(args, state) ==
    /\ args.device_id = Undefined
    /\ state.ok
    /\ StateDeviceId(state.value) = Undefined

\* SetVolumeTool.execute
SetVolumeExecute(args, authInfo, api) ==
    LET done(calls, result) ==
            ToolRun("SetVolumeTool.execute", "set_volume", args, authInfo, api,
                    calls, result)
        state == api.getPlaybackState
        calls == <<GetSpotifyApi, TargetLookup(args),
                   Call("setPlaybackVolume", TargetDeviceId(args, state),
                        <<>>, <<>>)>>
    IN  IF IsNotAuthenticated(authInfo) THEN done(<<>>, NotAuthenticated)
        ELSE IF NoActivePlayback(args, state)
        THEN done(<<GetSpotifyApi, TargetLookup(args)>>,
                  TextResult(<<"No active playback found. Make sure Spotify is playing music on a device.">>))
        ELSE IF api.command.ok
        THEN done(calls,
                  TextResult(<<"Volume set to ", ToString(args.volume_percent),
                               "% successfully">>
                             \o TargetDeviceInfo(args, state,
                                                 api.getAvailableDevices)
                             \o <<".">>))
        ELSE done(calls, SetVolumeCatch(api.command.error))

(* pause_playback *)

\* The catch block of PausePlaybackTool.execute, case by case.
PausePlaybackCatch(error) ==
    Classify(
    <<[search |-> "scope",
       text |-> "Error: Insufficient permissions to control playback. The Spotify token needs the \"user-modify-playback-state\" scope to pause playback."],
      [search |-> "Premium",
       text |-> "Error: This feature requires Spotify Premium. Playback control is only available for Premium users."],
      [search |-> "Device not found",
       text |-> "Error: The specified device was not found or is not available."],
      [search |-> "No active device",
       text |-> "Error: No active device found. Please start playing music on a Spotify device first."]>>,
    error, "Error pausing playback: ")

\* PausePlaybackTool.execute
PausePlaybackExecute(args, authInfo, api) ==
    LET done(calls, result) ==
            ToolRun("PausePlaybackTool.execute", "pause_playback", args,
                    authInfo, api, calls, result)
        state == api.getPlaybackState
        calls == <<GetSpotifyApi, TargetLookup(args),
                   Call("pausePlayback", TargetDeviceId(args, state),
                        <<>>, <<>>)>>
    IN  IF IsNotAuthenticated(authInfo) THEN done(<<>>, NotAuthenticated)
        ELSE IF NoActivePlayback(args, state)
        THEN done(<<GetSpotifyApi, TargetLookup(args)>>,
                  TextResult(<<"No active playback found. Make sure Spotify is playing music on a device.">>))
        ELSE IF api.command.ok
        THEN done(calls,
                  TextResult(<<"Playback paused successfully">>
                             \o TargetDeviceInfo(args, state,
                                                 api.getAvailableDevices)
                             \o <<".">>))
        ELSE done(calls, PausePlaybackCatch(api.command.error))

(* play_songs *)

\* A URI as the pieces of its text: 'spotify:<type>:<id>' and
\* 'https://open.spotify.com/<type>/<id>'.
SpotifyUri(type, id) == <<"spotify", ":", type, ":", id>>

HttpUri(type, id) == <<"https", ":", "//", "open.spotify.com", "/", type, "/", id>>

UriTypes == {"track", "album", "playlist", "artist"}

UriLists ==
    LET Uris == {SpotifyUri(t, "123") : t \in UriTypes}
                    \cup {HttpUri(t, "123") : t \in UriTypes}
    IN  UNION {[1..n -> Uris] : n \in 0..MaxUris}

\* The catch block of the play_songs handlers.
PlaySongsCatch(error) ==
    Classify(
    <<[search |-> "scope",
       text |-> "Error: Insufficient permissions to control playback. The Spotify token needs the \"user-modify-playback-state\" scope to play songs."]>>,
    error, "Error starting playback: ")

\* uris.map((uri, index) => `${index + 1}. ${uri}`).join('\n')
RECURSIVE UriLines(_, _)
UriLines(uris, index) ==
    IF uris = <<>> THEN <<>>
    ELSE <<ToString(index + 1), ". ">> \o Head(uris)
         \o (IF Len(uris) > 1
             THEN <<"\n">> \o UriLines(Tail(uris), index + 1)
             ELSE <<>>)

\* uris.join(', ')
RECURSIVE JoinUris(_)
JoinUris(uris) ==
    IF uris = <<>> THEN <<>>
    ELSE Head(uris)
         \o (IF Len(uris) > 1 THEN <<", ">> \o JoinUris(Tail(uris)) ELSE <<>>)

\* if (device_name): undefined and '' are not a name.
NameGiven(device_name) == device_name \notin {Undefined, ""}

\* devices.devices.find(device => device.is_active) || devices.devices[0]
SelectedDevice(devices) ==
    LET activeDevice ==
            Find(devices, {i \in 1..Len(devices) : devices[i].is_active})
    IN  IF activeDevice # NoDevice THEN activeDevice ELSE devices[1]

NoDevicesFound ==
    TextResult(<<"No active Spotify devices found. Please open Spotify on a device and try again.">>)

NoDeviceIds(devices) ==
    TextResult(<<"Available devices found but no device IDs:\n">>
               \o DeviceLines(devices)
               \o <<"\n\nPlease ensure Spotify is active on a device.">>)

\* The play_songs handler of src/tools/playSongs.ts (uris, device_name).
PlaySongsExecute(args, authInfo, api) ==
    LET done(calls, result) ==
            ToolRun("play_songs(uris, device_name)", "play_songs", args,
                    authInfo, api, calls, result)
        uris == args.uris
        device_name == args.device_name
        devices == api.getAvailableDevices
        state == api.getPlaybackState
        namedDevice ==
            Find(devices.value,
                 {i \in 1..Len(devices.value) :
                     ToLowerCase(devices.value[i].name)
                         = ToLowerCase(device_name)})
        stateId == IF state.ok THEN StateDeviceId(state.value) ELSE Undefined
        deviceId ==
            IF NameGiven(device_name) THEN namedDevice.id
            ELSE IF stateId # Undefined THEN stateId
            ELSE SelectedDevice(devices.value).id
        lookups ==
            IF NameGiven(device_name)
            THEN <<GetSpotifyApi, ApiCall("getAvailableDevices")>>
            ELSE <<GetSpotifyApi, ApiCall("getAvailableDevices"),
                   ApiCall("getPlaybackState")>>
        calls ==
            lookups \o <<Call("startResumePlayback", deviceId, <<>>, uris)>>
        selectedDevice ==
            Find(devices.value,
                 {i \in 1..Len(devices.value) : devices.value[i].id = deviceId})
        deviceInfo ==
            IF selectedDevice # NoDevice THEN DeviceLabel(selectedDevice)
            ELSE <<deviceId>>
    IN  IF IsNotAuthenticated(authInfo) THEN done(<<>>, NotAuthenticated)
        ELSE IF uris = <<>>
        THEN done(<<>>, TextResult(<<"No URIs provided to play.">>))
        ELSE IF ~devices.ok
        THEN done(<<GetSpotifyApi, ApiCall("getAvailableDevices")>>,
                  PlaySongsCatch(devices.error))
        ELSE IF devices.value = <<>>
        THEN done(<<GetSpotifyApi, ApiCall("getAvailableDevices")>>,
                  NoDevicesFound)
        ELSE IF NameGiven(device_name) /\ namedDevice.id = Undefined
        THEN done(lookups,
                  TextResult(<<"Device \"", device_name,
                               "\" not found. Available devices:\n">>
                             \o DeviceLines(devices.value)))
        ELSE IF deviceId = Undefined
        THEN done(lookups, NoDeviceIds(devices.value))
        ELSE IF api.command.ok
        THEN done(calls,
                  TextResult(<<"Successfully started playing ",
                               ToString(Len(uris)), " track(s) on device ">>
                             \o deviceInfo \o <<":\n">> \o UriLines(uris, 0)))
        ELSE done(calls, PlaySongsCatch(api.command.error))

\* getUriType (src/tools/playSongs.ts, the revision that plays by URI type)
GetUriType(uri) ==
    IF Includes(uri, <<":", "track", ":">>) THEN "track"
    ELSE IF Includes(uri, <<":", "album", ":">>) THEN "album"
    ELSE IF Includes(uri, <<":", "playlist", ":">>) THEN "playlist"
    ELSE "unknown"

\* playedContent of the context branch.
PlayedContext(contextUris, trackUris) ==
    LET contextUri == contextUris[1]
    IN  <<"Started playing ", GetUriType(contextUri), ": ">> \o contextUri
        \o (IF Len(contextUris) > 1
            THEN <<"\nNote: Only the first ", GetUriType(contextUri),
                   " was played. Additional context URIs were ignored: ">>
                 \o JoinUris(Tail(contextUris))
            ELSE <<>>)
        \o (IF Len(trackUris) > 0
            THEN <<"\nNote: Track URIs were ignored when playing ",
                   GetUriType(contextUri), ": ">>
                 \o JoinUris(trackUris)
            ELSE <<>>)

\* The play_songs handler that plays by URI type (uris only).
PlaySongsByUriTypeExecute(args, authInfo, api) ==
    LET done(calls, result) ==
            ToolRun("play_songs(uris)", "play_songs", args, authInfo, api, calls,
                    result)
        uris == args.uris
        \* for (const uri of uris) { ... trackUris.push(uri) ... else
        \*                          ... contextUris.push(uri) ... }
        trackUris == SelectSeq(uris, LAMBDA u : GetUriType(u) = "track")
        contextUris ==
            SelectSeq(uris, LAMBDA u : GetUriType(u) \in {"album", "playlist"})
        state == api.getPlaybackState
        devices == api.getAvailableDevices
        stateId == IF state.ok THEN StateDeviceId(state.value) ELSE Undefined
        deviceId ==
            IF stateId # Undefined THEN stateId
            ELSE SelectedDevice(devices.value).id
        lookups ==
            IF stateId # Undefined
            THEN <<GetSpotifyApi, ApiCall("getPlaybackState")>>
            ELSE <<GetSpotifyApi, ApiCall("getPlaybackState"),
                   ApiCall("getAvailableDevices")>>
        start ==
            IF Len(contextUris) > 0
            THEN Call("startResumePlayback", deviceId, contextUris[1], <<>>)
            ELSE Call("startResumePlayback", deviceId, <<>>, trackUris)
        playedContent ==
            IF Len(contextUris) > 0
            THEN PlayedContext(contextUris, trackUris)
            ELSE <<"Successfully started playing ", ToString(Len(trackUris)),
                   " track(s):\n">> \o UriLines(trackUris, 0)
    IN  IF IsNotAuthenticated(authInfo) THEN done(<<>>, NotAuthenticated)
        ELSE IF uris = <<>>
        THEN done(<<>>, TextResult(<<"No URIs provided to play.">>))
        ELSE IF stateId = Undefined /\ ~devices.ok
        THEN done(lookups, PlaySongsCatch(devices.error))
        ELSE IF stateId = Undefined /\ devices.value = <<>>
        THEN done(lookups, NoDevicesFound)
        ELSE IF deviceId = Undefined
        THEN done(lookups, NoDeviceIds(devices.value))
        ELSE IF Len(contextUris) = 0 /\ Len(trackUris) = 0
        THEN done(lookups, TextResult(<<"No valid Spotify URIs found. Please provide track, album, or playlist URIs.">>))
        ELSE IF api.command.ok
        THEN done(lookups \o <<start>>,
                  TextResult(playedContent
                             \o <<"\nPlaying on device: ", deviceId>>))
        ELSE done(lookups \o <<start>>, PlaySongsCatch(api.command.error))

(* ---------------------------------------------------- the SIGINT handler *)

\* No SIGINT has been received: the handler has not started.
NotShuttingDown ==
    [phase |-> "idle", keys |-> <<>>, current |-> NoSession, threw |-> FALSE,
     invoked |-> {}]

\* for (const sessionId in transports): the keys the loop is to visit, taken
\* when the loop starts, in the store's enumeration order (the order of
\* insertion, which is the order the ids were generated in).  A key stored
\* after the loop has started is not among them.
ForIn(tr) ==
    SelectSeq([i \in 1..NotReal |-> i], LAMBDA s : tr[s] # NoChannel)

\* The loop as it moves on: a key deleted before its turn is passed over.
SkipDeleted(keys, tr) ==
    LET live == {i \in 1..Len(keys) : tr[keys[i]] # NoChannel}
    IN  IF live = {} THEN <<>> ELSE SubSeq(keys, First(live), Len(keys))

\* delete transports[sessionId], the statement after the awaited close; the
\* catch block skips it when the close threw.
DeleteVisited(tr, sid, threw) ==
    IF threw \/ sid = NoSession THEN tr ELSE [tr EXCEPT ![sid] = NoChannel]

(* ----------------------------------------------------------------- Init *)

\* const transports = {}: the store is empty and nothing is constructed.
InitSessions ==
    /\ transports = [s \in SessionIds |-> NoChannel]
    /\ nchan = 0
    /\ uuids = 0
    /\ chState = [c \in Channels |-> "none"]
    /\ chSid = [c \in Channels |-> NoSession]
    /\ initPending = [c \in Channels |-> FALSE]
    /\ delPending = [c \in Channels |-> FALSE]
    /\ closedAgain = [c \in Channels |-> FALSE]
    /\ insertCount = [c \in Channels |-> 0]
    /\ removeCount = [s \in SessionIds |-> 0]
    /\ learned = [s \in SessionIds |-> FALSE]
    /\ terminated = [s \in SessionIds |-> FALSE]
    /\ ev = NoEvent
    /\ serverTools = [c \in Channels |-> <<>>]
    /\ connected = [c \in Channels |-> FALSE]
    /\ onclose = [c \in Channels |-> FALSE]
    /\ eventStore = [c \in Channels |-> NoStore]
    /\ events = [st \in Channels |-> <<>>]
    /\ toolCalls = <<>>
    /\ handles = <<>>
    /\ run = NoRun
    /\ shutdown = NotShuttingDown

\* The server as it starts to listen: the tool modules are loaded and have
\* registered their tools.
Init ==
    /\ InitSessions
    /\ tools = LoadedTools
    /\ tools2 = LoadedTools2

(* ------------------------------------------------------- mcpPostHandler *)

\* POST /mcp, reuse branch: transport = transports[sessionId], then
\* await transport.handleRequest(req, res, req.body).  out is what the call
\* does: "ok", or it throws before ("throwEarly") or after ("throwLate") the
\* response headers are sent; the catch block answers the throw.  When what
\* the store read found is no transport, handleRequest is not a function and
\* the call itself throws a TypeError.  "handlerThrow": the call returns,
\* and the tool handler the Channel invoked for it threw inside the Channel.
PostReuse(sid, body, out) ==
    /\ TurnOver
    /\ Route(transports, sid, body) = "reuse"
    /\ LET c == Lookup(transports, sid)
           written == ChannelHandle(chState[c], body)
           r == CASE out = "ok" -> written
                  [] out = "throwEarly" -> PostCatch(FALSE, NoResponse)
                  [] out = "throwLate" -> PostCatch(TRUE, written)
                  [] out = "handlerThrow" -> ChannelToolError
       IN  IF c = Inherited
           THEN /\ out # "handlerThrow"
                /\ ev' = Event("POST", sid, body, "reuse", NoChannel,
                               PostCatch(FALSE, NoResponse))
                /\ UNCHANGED chState
           ELSE /\ out = "handlerThrow" => ChannelAccepts(chState[c], body)
                /\ ev' = Event("POST", sid, body, "reuse", c, r)
                /\ chState' = IF out = "handlerThrow"
                              THEN [chState EXCEPT ![c] = AfterHandlerError(@)]
                              ELSE chState
    /\ UNCHANGED <<transports, nchan, uuids, chSid, initPending,
                   delPending, closedAgain, insertCount, removeCount, learned,
                   terminated, registryVars, serverVars, events>>

\* POST /mcp, else branch: 400 and return.
PostReject(sid, body) ==
    /\ TurnOver
    /\ Route(transports, sid, body) = "reject"
    /\ ev' = Event("POST", sid, body, "reject", NoChannel,
                   PostRejectResponse(sid, body))
    /\ UNCHANGED <<transports, nchan, uuids, chState, chSid, initPending,
                   delPending, closedAgain, insertCount, removeCount, learned,
                   terminated, registryVars, serverVars, events>>

\* POST /mcp, create branch up to its first await: new InMemoryEventStore,
\* new StreamableHTTPServerTransport, transport.onclose = ..., getServer(),
\* then await server.connect(transport).  out is "ok", or getServer (tool
\* materialization) throws and the catch block answers.
PostCreate(sid, body, out) ==
    /\ TurnOver
    /\ Route(transports, sid, body) = "create"
    /\ nchan < MaxChannels
    /\ LET c == nchan + 1 IN
        /\ nchan' = c
        /\ eventStore' = [eventStore EXCEPT ![c] = NewEventStore(c)]
        /\ onclose' = [onclose EXCEPT ![c] = TRUE]
        /\ IF out = "ok"
           THEN /\ serverTools' = [serverTools EXCEPT ![c] = GetServer(tools)]
                /\ chState' = [chState EXCEPT ![c] = "connecting"]
                /\ ev' = Event("POST", sid, body, "create", NoChannel, NoResponse)
           ELSE /\ chState' = [chState EXCEPT ![c] = "failed"]
                /\ ev' = Event("POST", sid, body, "create", NoChannel,
                               PostCatch(FALSE, NoResponse))
                /\ UNCHANGED serverTools
    /\ UNCHANGED <<transports, uuids, chSid, initPending, delPending,
                   closedAgain, insertCount, removeCount, learned, terminated,
                   registryVars, connected, events>>

\* The create branch after await server.connect(transport): the connect
\* threw ("connectThrow"), or it returned and transport.handleRequest(req,
\* res, req.body) runs: the Channel throws before assigning an id
\* ("handleThrow"), or it assigns its session id with sessionIdGenerator,
\* calls onsessioninitialized and becomes active ("ok"); the response is
\* written in a later segment.
PostConnected(c, out) ==
    /\ TurnOver
    /\ chState[c] = "connecting"
    /\ connected' = [connected EXCEPT ![c] = out # "connectThrow"]
    /\ IF out = "ok"
       THEN LET sid == SessionIdGenerator(uuids)
                tr2 == OnSessionInitialized(transports, sid, c)
            IN  /\ sid \in SessionIds \ {NotReal}
                /\ uuids' = uuids + 1
                /\ chSid' = [chSid EXCEPT ![c] = sid]
                /\ transports' = tr2
                /\ insertCount' = InsertsAfter(transports, tr2)
                /\ removeCount' = RemovesAfter(transports, tr2)
                /\ chState' = [chState EXCEPT ![c] = "active"]
                /\ initPending' = [initPending EXCEPT ![c] = TRUE]
                /\ ev' = Event("POST", NoSession, "initialize", "late", c,
                               NoResponse)
       ELSE /\ chState' = [chState EXCEPT ![c] = "failed"]
            /\ ev' = Event("POST", NoSession, "initialize", "late",
                           IF out = "handleThrow" THEN c ELSE NoChannel,
                           PostCatch(FALSE, NoResponse))
            /\ UNCHANGED <<transports, uuids, chSid, initPending, insertCount,
                           removeCount>>
    /\ UNCHANGED <<nchan, delPending, closedAgain, learned, terminated,
                   registryVars, serverTools, onclose, eventStore, events>>

\* The Channel writes the initialize response, the session id in its header:
\* from here on the client knows the id.
PostInitializeResponse(c) ==
    /\ TurnOver
    /\ initPending[c]
    /\ initPending' = [initPending EXCEPT ![c] = FALSE]
    /\ learned' = [learned EXCEPT ![chSid[c]] = TRUE]
    /\ ev' = Event("POST", NoSession, "initialize", "late", c,
                   ChannelInitialized(chSid[c]))
    /\ UNCHANGED <<transports, nchan, uuids, chState, chSid, delPending,
                   closedAgain, insertCount, removeCount, terminated,
                   registryVars, serverVars, events>>

(* -------------------------------------------------------- mcpGetHandler *)

\* GET /mcp without a session the store knows: 400 and return.
GetReject(sid) ==
    /\ TurnOver
    /\ ~KnownSession(transports, sid)
    /\ ev' = Event("GET", sid, "none", "reject", NoChannel, GetInvalidSession)
    /\ UNCHANGED <<transports, nchan, uuids, chState, chSid, initPending,
                   delPending, closedAgain, insertCount, removeCount, learned,
                   terminated, registryVars, serverVars, events>>

\* GET /mcp on a stored session: await transport.handleRequest(req, res),
\* with no try around it: a throw leaves the handler.  marker is the
\* last-event-id header of the request (0: none); the handler logs it and
\* the Channel replays from its event store.
GetStream(sid, marker, out) ==
    /\ TurnOver
    /\ KnownSession(transports, sid)
    /\ LET c == Lookup(transports, sid)
           written == ChannelStream(chState[c], events[eventStore[c]], c,
                                    marker)
           r == CASE out = "ok" -> written
                  [] out = "throwEarly" -> Escaped(NoResponse)
                  [] out = "throwLate" -> Escaped(written)
       IN  IF c = Inherited
           THEN ev' = Event("GET", sid, "none", "reuse", NoChannel,
                            Escaped(NoResponse))
           ELSE ev' = Event("GET", sid, "none", "reuse", c, r)
    /\ UNCHANGED <<transports, nchan, uuids, chState, chSid, initPending,
                   delPending, closedAgain, insertCount, removeCount, learned,
                   terminated, registryVars, serverVars, events>>

(* ----------------------------------------------------- mcpDeleteHandler *)

\* DELETE /mcp without a session the store knows: 400 and return.
DeleteReject(sid) ==
    /\ TurnOver
    /\ ~KnownSession(transports, sid)
    /\ ev' = Event("DELETE", sid, "none", "reject", NoChannel,
                   DeleteInvalidSession)
    /\ UNCHANGED <<transports, nchan, uuids, chState, chSid, initPending,
                   delPending, closedAgain, insertCount, removeCount, learned,
                   terminated, registryVars, serverVars, events>>

\* DELETE /mcp on a stored session, up to the await: transport =
\* transports[sessionId]; await transport.handleRequest(req, res).  An active
\* Channel with no termination under way starts closing ("ok") or throws at
\* once ("throw", answered by the catch block); any other Channel rejects the
\* request itself.  When what the store read found is no transport, the call
\* throws a TypeError.
DeleteDispatch(sid, out) ==
    /\ TurnOver
    /\ KnownSession(transports, sid)
    /\ LET c == Lookup(transports, sid) IN
        IF c = Inherited
        THEN /\ out = "throw"
             /\ ev' = Event("DELETE", sid, "none", "reuse", NoChannel,
                            DeleteCatch(FALSE, NoResponse))
             /\ UNCHANGED <<chState, delPending>>
        ELSE IF chState[c] = "active" /\ ~delPending[c]
        THEN IF out = "ok"
             THEN /\ chState' = [chState EXCEPT ![c] = "closing"]
                  /\ delPending' = [delPending EXCEPT ![c] = TRUE]
                  /\ ev' = Event("DELETE", sid, "none", "reuse", c, NoResponse)
             ELSE /\ ev' = Event("DELETE", sid, "none", "reuse", c,
                                 DeleteCatch(FALSE, NoResponse))
                  /\ UNCHANGED <<chState, delPending>>
        ELSE /\ out = "ok"
             /\ ev' = Event("DELETE", sid, "none", "reuse", c, ChannelError)
             /\ UNCHANGED <<chState, delPending>>
    /\ UNCHANGED <<transports, nchan, uuids, chSid, initPending, closedAgain,
                   insertCount, removeCount, learned, terminated,
                   registryVars, serverVars, events>>

\* The termination dispatched to channel c comes back to the handler.  "ok":
\* the Channel closed, its close callback ran, and it answered with success.
\* "throwAfterClose": it closed, the callback ran, and then it threw.
\* "throwBeforeClose": it threw partway, before it closed.  A throw is
\* answered by the catch block of mcpDeleteHandler.
DeleteFinish(c, out) ==
    /\ TurnOver
    /\ delPending[c]
    /\ delPending' = [delPending EXCEPT ![c] = FALSE]
    /\ IF out = "throwBeforeClose"
       THEN /\ ev' = Event("DELETE", chSid[c], "none", "late", c,
                           DeleteCatch(FALSE, NoResponse))
            /\ UNCHANGED <<transports, chState, closedAgain, insertCount,
                           removeCount, terminated>>
       ELSE LET tr2 == OnClose(transports, chSid[c]) IN
            /\ transports' = tr2
            /\ insertCount' = InsertsAfter(transports, tr2)
            /\ removeCount' = RemovesAfter(transports, tr2)
            /\ chState' = [chState EXCEPT ![c] = "closed"]
            /\ closedAgain' = [closedAgain EXCEPT
                                 ![c] = @ \/ chState[c] = "closed"]
            /\ IF out = "ok"
               THEN /\ ev' = Event("DELETE", chSid[c], "none", "late", c,
                                   ChannelOk)
                    /\ terminated' = [terminated EXCEPT ![chSid[c]] = TRUE]
               ELSE /\ ev' = Event("DELETE", chSid[c], "none", "late", c,
                                   DeleteCatch(FALSE, NoResponse))
                    /\ UNCHANGED terminated
    /\ UNCHANGED <<nchan, uuids, chSid, initPending, learned,
                   registryVars, serverVars, events>>

(* -------------------------------------------------------- close signals *)

\* A close signal on channel c (a transport-level close; it may repeat): the
\* Channel is closed and transport.onclose runs.
CloseSignal(c) ==
    /\ TurnOver
    /\ chState[c] \in {"active", "closing", "closed"}
    /\ closedAgain' = [closedAgain EXCEPT ![c] = @ \/ chState[c] = "closed"]
    /\ chState' = [chState EXCEPT ![c] = "closed"]
    /\ LET tr2 == OnClose(transports, chSid[c]) IN
        /\ transports' = tr2
        /\ insertCount' = InsertsAfter(transports, tr2)
        /\ removeCount' = RemovesAfter(transports, tr2)
    /\ UNCHANGED <<nchan, uuids, chSid, initPending, delPending, learned,
                   terminated, ev, registryVars, serverVars, events>>

(* ------------------------------------------------------- authMiddleware *)

\* app.post / app.get / app.delete('/mcp', authMiddleware, handler) for a
\* request the middleware does not let through: it answers the request
\* itself and the handler is not called.  The middleware reads the
\* Authorization header only, so the event holds no session header or body.
Unauthenticated(verb) ==
    /\ TurnOver
    /\ ev' = Event(verb, NoSession, "none", "unauthenticated", NoChannel,
                   Unauthorized)
    /\ UNCHANGED <<transports, nchan, uuids, chState, chSid, initPending,
                   delPending, closedAgain, insertCount, removeCount, learned,
                   terminated, registryVars, serverVars, events>>

(* ------------------------------------------------------ the event store *)

\* Channel c sends an outbound event of its session and stores it in its
\* event store, under the next number of the session.
StoreEvent(c) ==
    /\ TurnOver
    /\ chState[c] = "active"
    /\ Logged(events[eventStore[c]], c) < MaxEvents
    /\ events' = [events EXCEPT ![eventStore[c]] =
                     Append(@, <<c, Logged(@, c) + 1>>)]
    /\ UNCHANGED <<transports, nchan, uuids, chState, chSid, initPending,
                   delPending, closedAgain, insertCount, removeCount, learned,
                   terminated, ev, registryVars, serverVars>>

(* ---------------------------------------------------- the Tool Registry *)

\* toolsRegistry.register(tool), as a tool module calls it when loaded.
RegisterTool(tool) ==
    /\ Len(tools) < MaxTools
    /\ tools' = Register(tools, tool)
    /\ UNCHANGED <<transports, nchan, uuids, chState, chSid, initPending,
                   delPending, closedAgain, insertCount, removeCount, learned,
                   terminated, ev, tools2, toolCalls, handles, run, shutdown,
                   serverVars, events>>

\* toolsRegistry.registerToServer(server) on a server with no tool yet.
RegisterToolsToServer ==
    /\ toolCalls' = RegisterToServer(tools)
    /\ handles' = RegisteredTools(RegisterToServer(tools))
    /\ UNCHANGED <<transports, nchan, uuids, chState, chSid, initPending,
                   delPending, closedAgain, insertCount, removeCount, learned,
                   terminated, ev, tools, tools2, run, shutdown, serverVars,
                   events>>

(* ------------------------------------------------------- tool handlers *)

\* A tool handler is called and runs to its result (or its exception).
CallTool(result) ==
    /\ run = NoRun
    /\ run' = result
    /\ UNCHANGED <<transports, nchan, uuids, chState, chSid, initPending,
                   delPending, closedAgain, insertCount, removeCount, learned,
                   terminated, ev, tools, tools2, toolCalls, handles, shutdown,
                   serverVars, events>>

WhoAmI(authInfo, api) == CallTool(WhoAmIExecute(authInfo, api))

Search(authInfo, api) == CallTool(SearchExecute(authInfo, api))

ListDevices(authInfo, api) == CallTool(ListDevicesExecute(authInfo, api))

GetPlaybackState(authInfo, api) ==
    CallTool(GetPlaybackStateExecute(authInfo, api))

SetVolume(args, authInfo, api) ==
    CallTool(SetVolumeExecute(args, authInfo, api))

PausePlayback(args, authInfo, api) ==
    CallTool(PausePlaybackExecute(args, authInfo, api))

PlaySongs(args, authInfo, api) ==
    CallTool(PlaySongsExecute(args, authInfo, api))

PlaySongsByUriType(args, authInfo, api) ==
    CallTool(PlaySongsByUriTypeExecute(args, authInfo, api))

\* The result has gone back to the caller: the handler keeps nothing.
ToolReturns ==
    /\ run # NoRun
    /\ run' = NoRun
    /\ UNCHANGED <<transports, nchan, uuids, chState, chSid, initPending,
                   delPending, closedAgain, insertCount, removeCount, learned,
                   terminated, ev, tools, tools2, toolCalls, handles, shutdown,
                   serverVars, events>>

(* --------------------------------------------- process.on('SIGINT', ...) *)

\* The loop of the SIGINT handler from the top of an iteration, the store
\* being tr: with no key left to visit, 'Server shutdown complete' and
\* process.exit(0); otherwise transports[sessionId].close() is invoked on
\* the channel stored under the next key and the handler awaits it.  out is
\* what the awaited close comes to: the Channel closes and its close callback
\* runs ("ok"), it closes and then the call throws ("throwAfterClose"), or
\* the call throws before the Channel has closed ("throwBeforeClose").
SigintLoop(keys, tr, out) ==
    LET rest == SkipDeleted(keys, tr) IN
    IF rest = <<>>
    THEN /\ out = "ok"
         /\ shutdown' = [shutdown EXCEPT !.phase = "exited", !.keys = <<>>,
                                         !.current = NoSession,
                                         !.threw = FALSE]
         /\ transports' = tr
         /\ insertCount' = InsertsAfter(transports, tr)
         /\ removeCount' = RemovesAfter(transports, tr)
         /\ UNCHANGED <<chState, closedAgain>>
    ELSE LET sid == Head(rest)
             c == tr[sid]
             closes == out # "throwBeforeClose"
             tr2 == IF closes THEN OnClose(tr, chSid[c]) ELSE tr
         IN  /\ shutdown' = [phase |-> "awaiting", keys |-> Tail(rest),
                             current |-> sid, threw |-> out # "ok",
                             invoked |-> shutdown.invoked \cup {c}]
             /\ transports' = tr2
             /\ insertCount' = InsertsAfter(transports, tr2)
             /\ removeCount' = RemovesAfter(transports, tr2)
             /\ chState' = IF closes THEN [chState EXCEPT ![c] = "closed"]
                           ELSE chState
             /\ closedAgain' = IF closes
                               THEN [closedAgain EXCEPT
                                       ![c] = @ \/ chState[c] = "closed"]
                               ELSE closedAgain

\* SIGINT is received: the handler starts, takes the keys of the store and
\* runs to its first await, or to process.exit(0) when the store is empty.
Sigint(out) ==
    /\ TurnOver
    /\ shutdown.phase = "idle"
    /\ SigintLoop(ForIn(transports), transports, out)
    /\ UNCHANGED <<nchan, uuids, chSid, initPending, delPending, learned,
                   terminated, ev, tools, tools2, toolCalls, handles, run,
                   serverVars, events>>

\* The awaited close has settled: delete transports[sessionId] unless it
\* threw (the catch block only logs), then the next iteration.
SigintResumes(out) ==
    /\ TurnOver
    /\ shutdown.phase = "awaiting"
    /\ SigintLoop(shutdown.keys,
                  DeleteVisited(transports, shutdown.current, shutdown.threw),
                  out)
    /\ UNCHANGED <<nchan, uuids, chSid, initPending, delPending, learned,
                   terminated, ev, tools, tools2, toolCalls, handles, run,
                   serverVars, events>>

(* ------------------------------------------------------ event-loop turn *)

\* The turn ends: the segment has returned to the event loop.
TurnEnds ==
    /\ ~TurnOver
    /\ ev' = NoEvent
    /\ UNCHANGED <<transports, nchan, uuids, chState, chSid, initPending,
                   delPending, closedAgain, insertCount, removeCount, learned,
                   terminated, registryVars, serverVars, events>>

(* ------------------------------------------------------- specification *)

\* The session headers a client can present: none, an id it has seen in an
\* initialize response, an id the generator never produced, or the name of
\* an Object.prototype member.  (A randomUUID no response has carried yet
\* cannot be presented.)
Headers ==
    {NoSession, NotReal, InheritedKey} \cup {s \in SessionIds : learned[s]}

Throws == {"ok", "throwEarly", "throwLate"}

\* What a forwarded POST can come to: the above, or the tool handler throws.
PostOutcomes == Throws \cup {"handlerThrow"}

\* The middleware lets the request through: it carries a credential that
\* passes requireBearerAuth.
Authenticated == \E cred \in Credentials : RequireBearerAuth(cred)

Verbs == {"POST", "GET", "DELETE"}

Next ==
    \/ \E cred \in Credentials, verb \in Verbs :
          ~RequireBearerAuth(cred) /\ Unauthenticated(verb)
    \/ \E sid \in Headers, body \in Bodies, out \in PostOutcomes :
          Authenticated /\ PostReuse(sid, body, out)
    \/ \E sid \in Headers, body \in Bodies :
          Authenticated /\ PostReject(sid, body)
    \/ \E sid \in Headers, body \in Bodies, out \in {"ok", "toolsThrow"} :
          Authenticated /\ PostCreate(sid, body, out)
    \/ \E c \in Channels, out \in {"ok", "connectThrow", "handleThrow"} :
          PostConnected(c, out)
    \/ \E c \in Channels : PostInitializeResponse(c)
    \/ \E sid \in Headers : Authenticated /\ GetReject(sid)
    \/ \E sid \in Headers, marker \in Markers, out \in Throws :
          Authenticated /\ GetStream(sid, marker, out)
    \/ \E sid \in Headers : Authenticated /\ DeleteReject(sid)
    \/ \E sid \in Headers, out \in {"ok", "throw"} :
          Authenticated /\ DeleteDispatch(sid, out)
    \/ \E c \in Channels,
          out \in {"ok", "throwAfterClose", "throwBeforeClose"} :
          DeleteFinish(c, out)
    \/ \E c \in Channels : CloseSignal(c)
    \/ TurnEnds

Spec == Init /\ [][Next]_vars

(* ------------------------------------ the registry's own specification *)

\* The registry as constructed: private tools = [].
RegistryInit ==
    /\ InitSessions
    /\ tools = <<>>
    /\ tools2 = <<>>

RegistryNext ==
    \/ \E tool \in ToolEntries : RegisterTool(tool)
    \/ RegisterToolsToServer

RegistrySpec == RegistryInit /\ [][RegistryNext]_vars

(* ------------------------------------------ the tools' own specification *)

\* The inputs of the handlers that do not read them in detail.
SomeOutcomes ==
    {Resolved(Undefined), Rejected(Undefined, ApiError),
     Rejected(Undefined, NotAnError)}

KitchenDevice ==
    [id |-> "device1", name |-> "Kitchen", type |-> "Computer",
     is_active |-> TRUE]

SomeStateOutcomes ==
    {Resolved(NullState), Resolved([present |-> TRUE, device |-> NoDevice]),
     Resolved([present |-> TRUE, device |-> KitchenDevice]),
     Rejected(NullState, ApiError)}

SomeDevicesOutcomes ==
    {Resolved(<<>>), Resolved(<<KitchenDevice>>),
     Resolved(<<[KitchenDevice EXCEPT !.id = Undefined]>>),
     Rejected(<<>>, ApiError)}

SomeCommandOutcomes ==
    {Resolved(Undefined), Rejected(Undefined, Error(<<"scope">>)),
     Rejected(Undefined, ApiError)}

\* One handler runs at a time here, from its call to its return.
ToolsNext ==
    \/ run = NoRun /\
       \E authInfo \in AuthInfos, profile \in SomeOutcomes :
          WhoAmI(authInfo, Api(Resolved(NullState), Resolved(<<>>), profile))
    \/ run = NoRun /\
       \E authInfo \in AuthInfos, search \in SomeOutcomes :
          Search(authInfo, Api(Resolved(NullState), Resolved(<<>>), search))
    \/ run = NoRun /\
       \E authInfo \in AuthInfos, devices \in DevicesOutcomes :
          ListDevices(authInfo,
                      Api(Resolved(NullState), devices, Resolved(Undefined)))
    \/ run = NoRun /\
       \E authInfo \in AuthInfos,
          state \in {Resolved(NullState), Rejected(NullState, ApiError)}
                       \cup {Resolved([present |-> TRUE, device |-> d]) :
                                d \in Devices \cup {NoDevice}} :
          GetPlaybackState(authInfo,
                           Api(state, Resolved(<<>>), Resolved(Undefined)))
    \/ run = NoRun /\
       \E device_id \in {Undefined, "device1"}, volume_percent \in {0, 100},
          authInfo \in AuthInfos, state \in SomeStateOutcomes,
          devices \in SomeDevicesOutcomes, command \in CommandOutcomes :
          SetVolume(Args(<<>>, Undefined, device_id, volume_percent), authInfo,
                    Api(state, devices, command))
    \/ run = NoRun /\
       \E device_id \in {Undefined, "device1"}, authInfo \in AuthInfos,
          state \in SomeStateOutcomes, devices \in SomeDevicesOutcomes,
          command \in CommandOutcomes :
          PausePlayback(Args(<<>>, Undefined, device_id, 0), authInfo,
                        Api(state, devices, command))
    \/ run = NoRun /\
       \E uris \in {<<>>, <<SpotifyUri("track", "123")>>},
          device_name \in {Undefined, "", "kitchen", "OFFICE", "Den"},
          authInfo \in AuthInfos,
          state \in SomeStateOutcomes, devices \in DevicesOutcomes,
          command \in SomeCommandOutcomes :
          PlaySongs(Args(uris, device_name, Undefined, 0), authInfo,
                    Api(state, devices, command))
    \/ run = NoRun /\
       \E uris \in UriLists, authInfo \in AuthInfos,
          state \in SomeStateOutcomes, devices \in SomeDevicesOutcomes,
          command \in SomeCommandOutcomes :
          PlaySongsByUriType(Args(uris, Undefined, Undefined, 0), authInfo,
                             Api(state, devices, command))
    \/ ToolReturns

ToolsSpec == Init /\ [][ToolsNext]_vars

(* --------------------------------------- the shutdown's own specification *)

\* The process is running: process.exit(0) has not been called.
Running == shutdown.phase # "exited"

\* Sessions are initialized and closed while SIGINT may arrive at any turn
\* and its handler runs between the turns of the request handlers.
ShutdownNext ==
    \/ Running /\ \E sid \in Headers, body \in Bodies :
          Authenticated /\ PostCreate(sid, body, "ok")
    \/ Running /\ \E c \in Channels : PostConnected(c, "ok")
    \/ Running /\ \E c \in Channels : PostInitializeResponse(c)
    \/ Running /\ \E c \in Channels : CloseSignal(c)
    \/ Running /\ TurnEnds
    \/ \E out \in {"ok", "throwAfterClose", "throwBeforeClose"} : Sigint(out)
    \/ \E out \in {"ok", "throwAfterClose", "throwBeforeClose"} :
          SigintResumes(out)

ShutdownSpec == Init /\ [][ShutdownNext]_vars

(* ------------------------------------- resumable delivery, live sessions *)

\* Every channel of the run has been created by an initialize request that
\* was answered: each is active and stored under the id it was given.
ReplayInit ==
    /\ transports = [s \in SessionIds |-> IF s \in Channels THEN s ELSE NoChannel]
    /\ nchan = MaxChannels
    /\ uuids = MaxChannels
    /\ chState = [c \in Channels |-> "active"]
    /\ chSid = [c \in Channels |-> c]
    /\ initPending = [c \in Channels |-> FALSE]
    /\ delPending = [c \in Channels |-> FALSE]
    /\ closedAgain = [c \in Channels |-> FALSE]
    /\ insertCount = [c \in Channels |-> 1]
    /\ removeCount = [s \in SessionIds |-> 0]
    /\ learned = [s \in SessionIds |-> s \in Channels]
    /\ terminated = [s \in SessionIds |-> FALSE]
    /\ ev = NoEvent
    /\ tools = LoadedTools
    /\ tools2 = LoadedTools2
    /\ toolCalls = <<>>
    /\ handles = <<>>
    /\ run = NoRun
    /\ shutdown = NotShuttingDown
    /\ serverTools = [c \in Channels |-> GetServer(LoadedTools)]
    /\ connected = [c \in Channels |-> TRUE]
    /\ onclose = [c \in Channels |-> TRUE]
    /\ eventStore = [c \in Channels |-> NewEventStore(c)]
    /\ events = [st \in Channels |-> <<>>]

ReplayNext ==
    \/ \E c \in Channels : StoreEvent(c)
    \/ \E sid \in Headers : Authenticated /\ GetReject(sid)
    \/ \E sid \in Headers, marker \in Markers, out \in Throws :
          Authenticated /\ GetStream(sid, marker, out)
    \/ \E sid \in Headers, body \in Bodies, out \in PostOutcomes :
          Authenticated /\ PostReuse(sid, body, out)
    \/ \E c \in Channels : CloseSignal(c)
    \/ TurnEnds

ReplaySpec == ReplayInit /\ [][ReplayNext]_vars

(* ------------------------------------------- handler steps, by request *)

\* The first segment of mcpPostHandler for a POST with this header and body.
McpPostHandler(sid, body) ==
    \/ \E out \in PostOutcomes : PostReuse(sid, body, out)
    \/ PostReject(sid, body)
    \/ \E out \in {"ok", "toolsThrow"} : PostCreate(sid, body, out)

\* mcpGetHandler for a GET with this header.
McpGetHandler(sid) ==
    \/ GetReject(sid)
    \/ \E marker \in Markers, out \in Throws : GetStream(sid, marker, out)

\* The first segment of mcpDeleteHandler for a DELETE with this header.
McpDeleteHandler(sid) ==
    \/ DeleteReject(sid)
    \/ \E out \in {"ok", "throw"} : DeleteDispatch(sid, out)

\* A request on /mcp arrives with this credential: the route runs
\* authMiddleware and, only when that calls next(), the verb's handler.
Arrives(verb, cred, sid, body) ==
    IF RequireBearerAuth(cred)
    THEN CASE verb = "POST" -> McpPostHandler(sid, body)
           [] verb = "GET" -> McpGetHandler(sid)
           [] verb = "DELETE" -> McpDeleteHandler(sid)
    ELSE Unauthenticated(verb)

\* transport.close() on channel c: its close callback runs.
ChannelClosing(c) ==
    \/ CloseSignal(c)
    \/ DeleteFinish(c, "ok")
    \/ DeleteFinish(c, "throwAfterClose")

(* --------------------------------------------------------------- claims *)

\* The session store holds an entry of its own under this id.
StoredSession(tr, sid) == sid \in SessionIds /\ tr[sid] # NoChannel

\* C1: a POST whose mcp-session-id names a session in the store is forwarded
\* to exactly the channel stored under that id, and handling it constructs no
\* channel, creates no server and leaves the store as it was.
C1_ReuseForwardsAndCreatesNothing ==
    [][\A sid \in SessionIds, body \in Bodies :
          (transports[sid] # NoChannel /\ McpPostHandler(sid, body)) =>
             /\ ev'.route = "reuse"
             /\ ev'.fwd = transports[sid]
             /\ transports' = transports
             /\ nchan' = nchan
             /\ chState' = chState]_vars

\* C1 witness: a POST bearing a stored session id was forwarded to the channel
\* stored under it and answered by that channel.
C1_Witness ==
    /\ ev.verb = "POST" /\ ev.route = "reuse" /\ ev.status = 200
    /\ ev.sid \in SessionIds /\ ev.fwd # NoChannel
    /\ transports[ev.sid] = ev.fwd

\* C2: a POST carrying a session id that is not present in the session
\* store is answered with HTTP 400 and the envelope {jsonrpc: '2.0', error:
\* {code: -32000, message: 'Bad Request: No valid session ID provided'}, id:
\* null}, whatever its body, and is forwarded to no channel.
C2_UnknownSessionRejected ==
    [][\A sid \in SessionIds \cup {InheritedKey}, body \in Bodies :
          (~StoredSession(transports, sid) /\ McpPostHandler(sid, body)) =>
             /\ ev'.status = 400
             /\ ev'.jsonrpc = "2.0"
             /\ ev'.code = -32000
             /\ ev'.msg = "Bad Request: No valid session ID provided"
             /\ ev'.fwd = NoChannel
             /\ UNCHANGED <<transports, nchan, chState>>]_vars

C4_ConcurrentInitializationsDoNotCollide ==
    /\ [](\A c \in Channels :
            /\ chState[c] \in {"active", "closing", "closed"} =>
                 /\ chSid[c] # NoSession
                 /\ insertCount[c] = 1
                 /\ (transports[chSid[c]] = c \/ removeCount[chSid[c]] >= 1)
            /\ \A d \in Channels :
                 (c # d /\ chSid[c] # NoSession) => chSid[c] # chSid[d]
            /\ \A s \in SessionIds : transports[s] = c => chSid[c] = s)
    /\ [][\A s \in SessionIds :
            (transports[s] # NoChannel /\ transports'[s] # NoChannel) =>
                transports'[s] = transports[s]]_vars

\* C4 witness: two initializations are in flight at once, both published and
\* neither answered yet, each channel stored under its own distinct id.
C4_Witness ==
    /\ initPending[1] /\ initPending[2]
    /\ chSid[1] # chSid[2]
    /\ transports[chSid[1]] = 1 /\ transports[chSid[2]] = 2

\* C5: the channel is in the store no later than its session id becomes
\* visible to the client: at the step that writes the initialize response the
\* id has already been inserted, and a request bearing an id learned from an
\* initialize response is rejected as unknown only if the id was removed from
\* the store in between, never because the insert is still to come.
C5_StoredBeforeSessionIdVisible ==
    [][/\ \A s \in SessionIds :
            (~learned[s] /\ learned'[s]) =>
                /\ \E c \in Channels : chSid[c] = s /\ insertCount[c] = 1
                /\ (transports[s] # NoChannel \/ removeCount[s] >= 1)
       /\ \A s \in SessionIds, body \in Bodies :
            (learned[s] /\ removeCount[s] = 0 /\
               (McpPostHandler(s, body) \/ McpGetHandler(s)
                  \/ McpDeleteHandler(s))) =>
                /\ ev'.route = "reuse"
                /\ ev'.fwd # NoChannel
                /\ chSid[ev'.fwd] = s]_vars

\* C5 witness: a session id learned from an initialize response was presented
\* on a tool call and the call was served by the channel stored under it.
C5_Witness ==
    /\ ev.verb = "POST" /\ ev.body = "call" /\ ev.route = "reuse"
    /\ ev.sid \in SessionIds /\ learned[ev.sid] /\ ev.status = 200
    /\ ev.fwd # NoChannel /\ chSid[ev.fwd] = ev.sid

\* C6: a DELETE on a live session that the channel answers with success has
\* closed that channel and removed the session's key from the store, and the
\* key has left the store exactly once; no session is terminated with success
\* twice; a DELETE arriving for an id that has left the store is answered by
\* the router with the 400 'Invalid or missing session ID', reaches no channel
\* and raises nothing.
C6_DeleteClosesOnceThenUnknown ==
    /\ [](\A s \in SessionIds : removeCount[s] <= 1)
    /\ [][/\ \A c \in Channels :
               DeleteFinish(c, "ok") =>
                  /\ ev'.status = 200
                  /\ chState'[c] = "closed"
                  /\ transports'[chSid[c]] = NoChannel
                  /\ removeCount'[chSid[c]] = 1
                  /\ ~terminated[chSid[c]]
          /\ \A s \in SessionIds :
               (removeCount[s] >= 1 /\ McpDeleteHandler(s)) =>
                  /\ ev'.route = "reject"
                  /\ ev'.status = 400
                  /\ ev'.msg = "Invalid or missing session ID"
                  /\ ev'.fwd = NoChannel
                  /\ ~ev'.escaped
                  /\ transports' = transports]_vars

\* C6 witness: a session was terminated with success and the same DELETE,
\* repeated, was answered 400.
C6_Witness ==
    /\ ev.verb = "DELETE" /\ ev.route = "reject" /\ ev.status = 400
    /\ ev.sid \in SessionIds /\ terminated[ev.sid]
    /\ removeCount[ev.sid] = 1

\* C7: closed is terminal: a session id that has left the store is never a
\* key of the store again, and every POST, GET or DELETE that arrives bearing
\* it afterwards is rejected by the router with 400 and reaches no channel.
C7_ClosedIsTerminal ==
    [][\A s \in SessionIds :
          removeCount[s] >= 1 =>
             /\ transports'[s] = NoChannel
             /\ \A body \in Bodies :
                  (McpPostHandler(s, body) \/ McpGetHandler(s)
                     \/ McpDeleteHandler(s)) =>
                     /\ ev'.route = "reject"
                     /\ ev'.status = 400
                     /\ ev'.fwd = NoChannel
                     /\ nchan' = nchan]_vars

\* C7 witness: after a session left the store another session was created,
\* under a different id, and a POST bearing the closed id was rejected.
C7_Witness ==
    /\ ev.verb = "POST" /\ ev.route = "reject" /\ ev.sid \in SessionIds
    /\ removeCount[ev.sid] = 1 /\ transports[ev.sid] = NoChannel
    /\ \E c \in Channels : chState[c] = "active" /\ transports[chSid[c]] = c

\* C8: a close signal on a channel leaves that channel's session id out of the
\* store, and a close signal on a channel that is already closed changes
\* nothing in the store.
C8_CloseCleanupIdempotent ==
    [][\A c \in Channels :
          ChannelClosing(c) =>
             /\ chSid[c] # NoSession => transports'[chSid[c]] = NoChannel
             /\ chState[c] = "closed" => transports' = transports]_vars

\* C8 witness: a channel got a close signal when it was already closed, its id
\* is out of the store, and another session is still stored.
C8_Witness ==
    \E c, d \in Channels :
        /\ closedAgain[c] /\ chState[c] = "closed"
        /\ transports[chSid[c]] = NoChannel /\ removeCount[chSid[c]] = 1
        /\ c # d /\ chSid[d] # NoSession /\ transports[chSid[d]] = d

\* C9: when the handling of a DELETE for a live session throws partway, the
\* session's entry is removed all the same: once the termination handler has
\* answered through its error path, the session id is not in the store.
C9_CleanupWhenTerminationThrows ==
    (ev.verb = "DELETE" /\ ev.status = 500 /\ ev.fwd # NoChannel) =>
        transports[chSid[ev.fwd]] = NoChannel

\* C10: for POST, GET and DELETE alike, an exception thrown while the channel
\* handles the request is caught in the verb's handler: no exception leaves a
\* handler.
C10_NoExceptionLeavesAHandler ==
    ev.fwd # NoChannel => ~ev.escaped

\* C11: a request the router turns away leaves the store as it was and
\* constructs no channel: for a POST, GET or DELETE whose session id is
\* missing or is no entry of the store (a POST with no id and an initialize
\* body aside, which creates a session), no key is added, none is removed, no
\* value is replaced, and no channel is constructed or changes its state.
\* (The request of a handler step is the one the step records in ev.)
C11_RejectedRequestLeavesStoreUnchanged ==
    [][LET sid == ev'.sid
           body == ev'.body
       IN (/\ ~StoredSession(transports, sid)
           /\ \/ McpGetHandler(sid)
              \/ McpDeleteHandler(sid)
              \/ /\ body \in Bodies
                 /\ McpPostHandler(sid, body)
                 /\ ~(sid = NoSession /\ IsInitializeRequest(body))) =>
             /\ transports' = transports
             /\ nchan' = nchan
             /\ chState' = chState
             /\ insertCount' = insertCount
             /\ removeCount' = removeCount]_vars

\* C11 witness: while a session is stored, a POST with an initialize body and
\* an id the store does not hold was rejected.
C11_Witness ==
    /\ ev.verb = "POST" /\ ev.route = "reject" /\ ev.sid = NotReal
    /\ ev.body = "initialize" /\ ev.status = 400
    /\ \E s \in SessionIds : transports[s] # NoChannel
    /\ nchan < MaxChannels

\* C12: for a session id that no initialize call has returned, POST, GET and
\* DELETE alike answer with the protocol-error envelope {jsonrpc: '2.0',
\* error: {code, message}, id: null}.
C12_UnknownSessionGetsErrorEnvelope ==
    [][\A sid \in SessionIds \cup {InheritedKey}, body \in Bodies :
          (/\ sid \in SessionIds => ~learned[sid]
           /\ \/ McpPostHandler(sid, body)
              \/ McpGetHandler(sid)
              \/ McpDeleteHandler(sid)) =>
             /\ ev'.jsonrpc = "2.0"
             /\ ev'.code # 0
             /\ ~ev'.escaped]_vars

\* C13: the two POST rejections differ: the response to a request carrying a
\* session id the store does not hold is not the response to a request with
\* no session id and a body that is not an initialize request.
C13_PostRejectionsAreDistinct ==
    [][\A sid \in SessionIds, body \in Bodies :
          PostReject(sid, body) =>
             \A b \in Bodies :
                 ~IsInitializeRequest(b) =>
                    <<ev'.status, ev'.code, ev'.msg>> #
                       <<PostRejectResponse(NoSession, b).status,
                         PostRejectResponse(NoSession, b).code,
                         PostRejectResponse(NoSession, b).msg>>]_vars

C15_UnauthenticatedNeverReachesRouter ==
    [][\A verb \in Verbs, cred \in {"missing", "invalid"} :
          Arrives(verb, cred, ev'.sid, ev'.body) =>
             /\ ev'.route = "unauthenticated"
             /\ ev'.fwd = NoChannel
             /\ transports' = transports
             /\ nchan' = nchan
             /\ chState' = chState
             /\ chSid' = chSid]_vars

\* C15 witness: with a session live in the store and room for another
\* channel, a DELETE without a verified credential was answered by the
\* middleware.
C15_Witness ==
    /\ ev.route = "unauthenticated" /\ ev.verb = "DELETE" /\ ev.status = 401
    /\ ev.fwd = NoChannel
    /\ \E c \in Channels : chState[c] = "active" /\ transports[chSid[c]] = c
    /\ nchan < MaxChannels

\* C16: when the handling of a POST throws before response headers are sent,
\* the response is HTTP 500 with the envelope code -32603 and the fixed
\* message 'Internal server error', and the exception's own text is not in
\* it; when the throw comes after the headers were sent, the response is the
\* one already written and the catch block writes no second one.
C16_PostThrowAnsweredGeneric500 ==
    [][/\ LET sid == ev'.sid
              body == ev'.body
          IN
            /\ (\/ PostReuse(sid, body, "throwEarly")
                \/ PostCreate(sid, body, "toolsThrow")) =>
                  /\ ev'.status = 500
                  /\ ev'.jsonrpc = "2.0"
                  /\ ev'.code = -32603
                  /\ ev'.msg = "Internal server error"
                  /\ ev'.msg # ThrownText
                  /\ ~ev'.escaped
            /\ (StoredSession(transports, sid)
                  /\ PostReuse(sid, body, "throwLate")) =>
                  /\ ev'.status = ChannelHandle(chState[transports[sid]],
                                                body).status
                  /\ ev'.status # 500
                  /\ ev'.msg # "Internal server error"
                  /\ ev'.msg # ThrownText
       /\ \A c \in Channels :
            (\E out \in {"connectThrow", "handleThrow"} :
                PostConnected(c, out)) =>
                  /\ ev'.status = 500
                  /\ ev'.jsonrpc = "2.0"
                  /\ ev'.code = -32603
                  /\ ev'.msg = "Internal server error"
                  /\ ev'.msg # ThrownText]_vars

\* C16 witness: a tool call forwarded to a live session's channel threw before
\* any header was sent and was answered with the generic 500.
C16_Witness ==
    /\ ev.verb = "POST" /\ ev.route = "reuse" /\ ev.body = "call"
    /\ ev.fwd # NoChannel /\ chState[ev.fwd] = "active"
    /\ ev.status = 500 /\ ev.code = -32603
    /\ ev.msg = "Internal server error"

\* C17: a tool handler that throws during a tool call on a live session
\* yields one error response for that call (the Channel's error result, not
\* an uncaught exception and not the router's 500) and does not close the
\* session: the store and every channel's state are as before, and a tool
\* call bearing the same session id is then routed to the same channel,
\* which takes it and answers it normally.
C17_HandlerErrorLeavesSessionUsable ==
    [][\A sid \in SessionIds :
          (StoredSession(transports, sid)
             /\ PostReuse(sid, "call", "handlerThrow")) =>
             LET c == transports[sid] IN
             /\ ev'.fwd = c
             /\ ev'.status = ChannelToolError.status
             /\ ev'.msg = ChannelToolError.msg
             /\ ev'.status # 500
             /\ ~ev'.escaped
             /\ transports' = transports
             /\ chState' = chState
             /\ chState'[c] = "active"
             /\ Route(transports', sid, "call") = "reuse"
             /\ Lookup(transports', sid) = c
             /\ ChannelHandle(chState'[c], "call") = ChannelOk]_vars

\* C17 witness: a tool call on a live session was answered with the error
\* result of a handler that threw, and the session is still stored and its
\* channel active.
C17_Witness ==
    /\ ev.verb = "POST" /\ ev.body = "call" /\ ev.route = "reuse"
    /\ ev.msg = "tool call failed" /\ ev.sid \in SessionIds
    /\ ev.fwd # NoChannel /\ transports[ev.sid] = ev.fwd
    /\ chState[ev.fwd] = "active"

\* C18: a GET on a live session that carries a last-event-id marker is served
\* by the channel stored under that session id, from that channel's own event
\* log: the stream it opens starts with exactly the events the session logged
\* after the marker, each once, none left out, in the order they were logged.
C18_ReplayIsTheSuffixAfterTheMarker ==
    [][\A sid \in SessionIds, marker \in 1..MaxEvents :
          (/\ StoredSession(transports, sid)
           /\ chState[transports[sid]] = "active"
           /\ marker <= Logged(events[eventStore[transports[sid]]],
                               transports[sid])
           /\ GetStream(sid, marker, "ok")) =>
             LET c == transports[sid]
                 n == Logged(events[eventStore[c]], c)
             IN  /\ ev'.fwd = c
                 /\ chSid[c] = sid
                 /\ ev'.status = 200
                 /\ ev'.replayed = [i \in 1..(n - marker) |-> <<c, marker + i>>]
                 /\ events' = events]_vars

\* C18 witness: a GET carrying the marker of a session's first event was
\* answered with the two events the session logged after it, in order, while
\* another session had events of its own logged.
C18_Witness ==
    /\ ev.verb = "GET" /\ ev.status = 200 /\ ev.fwd # NoChannel
    /\ ev.replayed = <<(<<ev.fwd, 2>>), (<<ev.fwd, 3>>)>>
    /\ \E d \in Channels :
          d # ev.fwd /\ Logged(events[eventStore[d]], d) >= 1

\* C19: every tool a tool module registers, search and list_devices among
\* them, is on the server of every channel an initialize request creates: the
\* tools callable in a new session are all the registered tools.
C19_EveryRegisteredToolOnEveryServer ==
    \A c \in Channels :
        chState[c] \in {"connecting", "active", "closing"} =>
            ToolNames(serverTools[c]) =
                {tools[i].name : i \in 1..Len(tools)}
                   \cup {tools2[i].name : i \in 1..Len(tools2)}

\* C20: register turns no entry away, also one whose name is registered
\* already: the entry is appended and the earlier entries stay; and
\* registerToServer calls server.tool once per entry, in registration order,
\* with the entry's name, description, argsSchema and execute as they were
\* registered, and returns the handles of these calls in the same order; with
\* no entry it makes no call and returns the empty list.
C20_RegistryKeepsEveryEntryInOrder ==
    /\ [](\A tool \in ToolEntries :
            LET r == Register(tools, tool) IN
            /\ Len(r) = Len(tools) + 1
            /\ r[Len(r)] = tool
            /\ \A i \in 1..Len(tools) : r[i] = tools[i])
    /\ [][RegisterToolsToServer =>
            /\ Len(toolCalls') = Len(tools)
            /\ Len(handles') = Len(tools)
            /\ \A i \in 1..Len(tools) :
                 /\ toolCalls'[i] = <<tools[i].name, tools[i].description,
                                       tools[i].argsSchema, tools[i].execute>>
                 /\ handles'[i] = ServerTool(toolCalls'[i])
            /\ tools = <<>> => (toolCalls' = <<>> /\ handles' = <<>>)
            /\ tools' = tools]_vars

\* C20 witness: two entries of one name and different handlers are registered
\* next to a third, and registerToServer has returned a handle for each of the
\* three, in registration order.
C20_Witness ==
    /\ Len(tools) = 3 /\ Len(handles) = 3 /\ Len(toolCalls) = 3
    /\ tools[1].name = tools[2].name /\ tools[1].execute # tools[2].execute
    /\ tools[3].name # tools[1].name
    /\ \A i \in 1..3 : handles[i].registered[1] = tools[i].name
                          /\ handles[i].registered[4] = tools[i].execute

\* C26: the router decides on the session header before it looks at the
\* body.  A POST carrying a session id that is not in the store is rejected
\* and creates no channel, also when its body is an initialize request; a
\* POST carrying a live session id is forwarded to the existing channel and
\* creates no second channel, also when its body is an initialize request.
C26_SessionHeaderDecidesBeforeBody ==
    [][LET sid == ev'.sid
           body == ev'.body
       IN (/\ sid # NoSession
           /\ body \in Bodies
           /\ McpPostHandler(sid, body)) =>
             /\ nchan' = nchan
             /\ IF StoredSession(transports, sid)
                THEN /\ ev'.route = "reuse"
                     /\ ev'.fwd = transports[sid]
                ELSE /\ ev'.route = "reject"
                     /\ ev'.status = 400
                     /\ ev'.fwd = NoChannel]_vars

\* A step on session a: a request bearing a, the end of a termination of its
\* channel, or a close signal on its channel.
OnSession(a) ==
    \/ \E body \in Bodies : McpPostHandler(a, body)
    \/ McpGetHandler(a)
    \/ McpDeleteHandler(a)
    \/ \E c \in Channels :
          /\ chSid[c] = a
          /\ \/ CloseSignal(c)
             \/ \E out \in {"ok", "throwAfterClose", "throwBeforeClose"} :
                   DeleteFinish(c, out)

\* C27: sessions are independent.  For two distinct live sessions a and b,
\* no request, termination, close signal or handler error on a changes the
\* entry of b in the session store or the state of b's channel.
C27_SessionsAreIndependent ==
    [][\A a, b \in SessionIds :
          (/\ a # b
           /\ StoredSession(transports, a)
           /\ StoredSession(transports, b)
           /\ OnSession(a)) =>
             /\ transports'[b] = transports[b]
             /\ chState'[transports[b]] = chState[transports[b]]
             /\ chSid'[transports[b]] = chSid[transports[b]]]_vars

\* C27 witness: of two sessions that were live together, one has been
\* terminated and removed, and the other is still stored, its channel active.
C27_Witness ==
    \E a, b \in SessionIds :
        /\ a # b
        /\ terminated[a]
        /\ transports[a] = NoChannel
        /\ StoredSession(transports, b)
        /\ insertCount[transports[b]] = 1
        /\ chSid[transports[b]] = b
        /\ chState[transports[b]] = "active"

\* A request bearing sid is taken up by its handler while the channel of sid
\* is closing: a termination has been dispatched to it, and its close
\* callback has not removed sid from the store.
ArrivesWhileClosing(sid, body) ==
    /\ StoredSession(transports, sid)
    /\ chState[transports[sid]] = "closing"
    /\ \/ body \in Bodies /\ McpPostHandler(sid, body)
       \/ McpGetHandler(sid)
       \/ McpDeleteHandler(sid)

\* C29: once a termination request for session s has been dispatched to its
\* channel, a new request bearing s that arrives before the channel's close
\* callback has removed s from the store is rejected rather than forwarded to
\* the closing channel.
C29_ClosingSessionRejectedByRouter ==
    [][ArrivesWhileClosing(ev'.sid, ev'.body) =>
          /\ ev'.route = "reject"
          /\ ev'.fwd = NoChannel]_vars

\* C29 as amended: such a request is still routed to the channel the store
\* holds under s, and the closing channel does not serve it: it is never
\* answered with success, and it changes neither the store nor the channel,
\* so the termination in flight is not disturbed.
C29_ClosingChannelServesNoNewRequest ==
    [][ArrivesWhileClosing(ev'.sid, ev'.body) =>
          /\ ev'.route = "reuse"
          /\ ev'.fwd = transports[ev'.sid]
          /\ ev'.status # 200
          /\ transports' = transports
          /\ chState' = chState
          /\ delPending' = delPending
          /\ nchan' = nchan]_vars

\* C29 witness: a POST bearing the id of a session whose termination is in
\* flight was forwarded to its closing channel and refused by it.
C29_Witness ==
    /\ ev.verb = "POST" /\ ev.route = "reuse"
    /\ StoredSession(transports, ev.sid)
    /\ ev.fwd = transports[ev.sid]
    /\ chState[ev.fwd] = "closing"
    /\ delPending[ev.fwd]
    /\ ev.status = 400
    /\ ev.msg = "rejected by the channel"

\* C30: in every reachable state each key k of the session store maps to a
\* channel whose own sessionId is k, and no channel is stored under two
\* keys; and the only step that puts a channel into the store is the
\* channel's session-initialized callback, fired while an initialize request
\* that carried no session id is handled.
C30_StoreKeysAreOwnSessionIds ==
    /\ [](\A k \in SessionIds :
             transports[k] # NoChannel =>
                /\ transports[k] \in Channels
                /\ chSid[transports[k]] = k)
    /\ [](\A k1, k2 \in SessionIds :
             (/\ transports[k1] # NoChannel
              /\ transports[k1] = transports[k2]) => k1 = k2)
    /\ [][\A k \in SessionIds :
             (transports'[k] # transports[k] /\ transports'[k] # NoChannel) =>
                /\ PostConnected(transports'[k], "ok")
                /\ chSid'[transports'[k]] = k
                /\ ev'.verb = "POST"
                /\ ev'.sid = NoSession
                /\ IsInitializeRequest(ev'.body)]_vars

\* C30 witness: two sessions are stored, each under its channel's own id, the
\* second just put there by the initialize request being handled.
C30_Witness ==
    /\ ev.verb = "POST" /\ ev.sid = NoSession /\ ev.body = "initialize"
    /\ ev.fwd \in Channels
    /\ initPending[ev.fwd]
    /\ transports[chSid[ev.fwd]] = ev.fwd
    /\ \E k \in SessionIds :
          /\ k # chSid[ev.fwd]
          /\ transports[k] \in Channels
          /\ chSid[transports[k]] = k

\* C28: on process shutdown every channel that is live in the session store
\* has had close invoked on it before the process exits, also when an
\* earlier close threw and also for a session whose initialization completed
\* while the handler was awaiting another channel's close.
C28_ShutdownClosesEveryLiveChannel ==
    shutdown.phase = "exited" =>
        \A s \in SessionIds :
            StoredSession(transports, s) =>
                transports[s] \in shutdown.invoked

(* ------------------------------------------------- claims on the tools *)

\* The handler call in progress was made with the middleware's AuthInfo.
AuthenticatedRun(handler) ==
    run.handler = handler /\ run.authInfo = "authInfo"

\* The places in the run's calls where the client function fn was called.
CallsOf(fn) == {i \in 1..Len(run.calls) : run.calls[i].fn = fn}

\* The run returned one text item, and this is its text.
ReturnedText(text) ==
    /\ ~run.result.threw
    /\ Len(run.result.content) = 1
    /\ run.result.content[1].type = "text"
    /\ run.result.content[1].text = text

\* C21: every tool handler, called with an authInfo that is undefined or
\* null, returns the single text result 'You are not authenticated.' and
\* makes no call to the music-service client: getSpotifyApi is not invoked.
C21_UnauthenticatedCallReachesNoClient ==
    run # NoRun /\ run.authInfo \in {Undefined, "null"} =>
        /\ ReturnedText(<<"You are not authenticated.">>)
        /\ run.calls = <<>>

\* pause_playback was called with authInfo null, with a client whose every
\* call would have succeeded, and returned the refusal.
C21_Witness ==
    /\ run.handler = "PausePlaybackTool.execute"
    /\ run.authInfo = "null"
    /\ run.api.command.ok
    /\ ReturnedText(<<"You are not authenticated.">>)

\* C22: pause_playback called without a device_id, when reading the playback
\* state fails, does not call pausePlayback at all and returns the text
\* 'I don't see any active device. Please start playing music on a Spotify
\* device first.'
C22_PauseStopsWhenStateUnreadable ==
    /\ AuthenticatedRun("PausePlaybackTool.execute")
    /\ run.args.device_id = Undefined
    /\ ~run.api.getPlaybackState.ok
    => /\ CallsOf("pausePlayback") = {}
       /\ ReturnedText(<<"I don't see any active device. Please start playing music on a Spotify device first.">>)

\* C23: play_songs classifies each URI as track, album or playlist in both
\* the 'spotify:<type>:<id>' and the 'https://open.spotify.com/<type>/<id>'
\* form.  With a device to play on: when an album or playlist URI is present
\* it starts playback of the first such URI as the context and of nothing
\* else; otherwise it plays all the track URIs; and when no URI is of a
\* recognised type it starts no playback and returns 'No valid Spotify URIs
\* found. Please provide track, album, or playlist URIs.'
C23_PlaysByUriTypeInBothForms ==
    /\ AuthenticatedRun("play_songs(uris)")
    /\ run.args.uris # <<>>
    /\ run.api.getPlaybackState.ok
    /\ StateDeviceId(run.api.getPlaybackState.value) # Undefined
    => LET uris == run.args.uris
           \* The type a URI has by the claim: the word in the type position
           \* of either form, when it is track, album or playlist.
           ClaimedUriType(uri) ==
               IF \E t \in {"track", "album", "playlist"} :
                     uri \in {SpotifyUri(t, "123"), HttpUri(t, "123")}
               THEN CHOOSE t \in {"track", "album", "playlist"} :
                       uri \in {SpotifyUri(t, "123"), HttpUri(t, "123")}
               ELSE "unknown"
           contexts == SelectSeq(uris, LAMBDA u :
                           ClaimedUriType(u) \in {"album", "playlist"})
           tracks == SelectSeq(uris, LAMBDA u : ClaimedUriType(u) = "track")
           starts == CallsOf("startResumePlayback")
       IN  IF contexts # <<>>
           THEN /\ Cardinality(starts) = 1
                /\ \A i \in starts : /\ run.calls[i].context = contexts[1]
                                     /\ run.calls[i].uris = <<>>
           ELSE IF tracks # <<>>
           THEN /\ Cardinality(starts) = 1
                /\ \A i \in starts : /\ run.calls[i].context = <<>>
                                     /\ run.calls[i].uris = tracks
           ELSE /\ starts = {}
                /\ ReturnedText(<<"No valid Spotify URIs found. Please provide track, album, or playlist URIs.">>)

\* The one playback the run started was on this device, which has an id.
PlaysOn(deviceId) ==
    /\ deviceId # Undefined
    /\ Cardinality(CallsOf("startResumePlayback")) = 1
    /\ \A i \in CallsOf("startResumePlayback") :
          run.calls[i].device = deviceId

\* The run started no playback and returned a message.
PlaysNothing ==
    /\ CallsOf("startResumePlayback") = {}
    /\ ~run.result.threw
    /\ Len(run.result.content) = 1

\* C24: play_songs selects its target device by a fixed priority and starts
\* playback only on a device with an id.  With device_name given: the device
\* whose name matches case-insensitively, else a 'not found' result listing
\* the available devices and no playback.  With no device_name: the current
\* playback state's device, else the first device flagged active, else the
\* first listed device.  With an empty device list, or when the selected
\* device has no id, no playback and a message instead.
C24_DeviceChosenByPriority ==
    /\ AuthenticatedRun("play_songs(uris, device_name)")
    /\ run.args.uris # <<>>
    /\ run.api.getAvailableDevices.ok
    => LET devices == run.api.getAvailableDevices.value
           name == run.args.device_name
           \* Two names are the same but for the case of their letters.
           SameNameIgnoringCase(a, b) ==
               \/ a = b
               \/ {a, b} \subseteq {"Kitchen", "KITCHEN", "kitchen"}
               \/ {a, b} \subseteq {"Office", "OFFICE", "office"}
               \/ {a, b} \subseteq {"Den", "DEN", "den"}
           state == run.api.getPlaybackState
           named == {i \in 1..Len(devices) :
                        SameNameIgnoringCase(devices[i].name, name)}
           active == {i \in 1..Len(devices) : devices[i].is_active}
           stateId == IF state.ok THEN StateDeviceId(state.value)
                      ELSE Undefined
           selected == IF stateId # Undefined THEN stateId
                       ELSE IF active # {} THEN devices[First(active)].id
                       ELSE devices[1].id
       IN  /\ \A i \in CallsOf("startResumePlayback") :
                 run.calls[i].device # Undefined
           /\ IF devices = <<>> THEN PlaysNothing
              ELSE IF NameGiven(name)
              THEN IF named = {}
                   THEN /\ PlaysNothing
                        /\ run.result.content[1].text =
                              <<"Device \"", name,
                                "\" not found. Available devices:\n">>
                              \o DeviceLines(devices)
                   ELSE IF devices[First(named)].id # Undefined
                   THEN PlaysOn(devices[First(named)].id)
                   ELSE PlaysNothing
              ELSE IF selected # Undefined THEN PlaysOn(selected)
              ELSE PlaysNothing

\* A device named "Kitchen" that is neither active nor first in the list was
\* asked for as "kitchen", and the playback started on it.
C24_Witness ==
    /\ AuthenticatedRun("play_songs(uris, device_name)")
    /\ run.args.device_name = "kitchen"
    /\ run.api.getAvailableDevices.ok
    /\ LET devices == run.api.getAvailableDevices.value
       IN  /\ Len(devices) = 2
           /\ devices[1].name = "Office" /\ devices[1].is_active
           /\ devices[1].id = "device1"
           /\ devices[2].name = "Kitchen" /\ ~devices[2].is_active
           /\ devices[2].id = "device2"
    /\ PlaysOn("device2")

\* C25: set_volume never throws for an authenticated call: an exception the
\* music-service client raises while setting the volume becomes exactly one
\* text result, classified by the first substring of 'scope', 'Premium',
\* 'Device not found', 'No active device', 'Volume not supported', 'Invalid
\* volume' (in this order) that the error's message includes, and otherwise
\* reported as 'Error setting volume: <message>', with 'Unknown error' for a
\* thrown value that is not an Error.
C25_SetVolumeErrorsBecomeOneText ==
    AuthenticatedRun("SetVolumeTool.execute") =>
        /\ ~run.result.threw
        /\ Len(run.result.content) = 1
        /\ CallsOf("setPlaybackVolume") # {} /\ ~run.api.command.ok =>
              LET error == run.api.command.error
                  \* The substrings, in the order of the claim.
                  VolumeErrorOrder ==
                      <<"scope", "Premium", "Device not found",
                        "No active device", "Volume not supported",
                        "Invalid volume">>
                  matching ==
                      {i \in 1..Len(VolumeErrorOrder) :
                          /\ error.isError
                          /\ \E k \in 1..Len(error.message) :
                                error.message[k] = VolumeErrorOrder[i]}
              IN  IF matching # {}
                  THEN ReturnedText(
                          <<SetVolumeText(VolumeErrorOrder[First(matching)])>>)
                  ELSE ReturnedText(
                          <<"Error setting volume: ">>
                          \o (IF error.isError THEN error.message
                              ELSE <<"Unknown error">>))

\* The client refused the volume with a message that names Premium before
\* scope, and set_volume answered with the text of the scope case.
C25_Witness ==
    /\ AuthenticatedRun("SetVolumeTool.execute")
    /\ CallsOf("setPlaybackVolume") # {}
    /\ ~run.api.command.ok
    /\ run.api.command.error = Error(<<"Premium", "scope">>)
    /\ ReturnedText(<<"Error: Insufficient permissions to control playback. The Spotify token needs the \"user-modify-playback-state\" scope to set volume.">>)

====
